---- MODULE Spec2Model ----
(***************************************************************************)
(* A model of dbsync (bintlabs/python-sync-db): the server push and pull    *)
(* handlers, the client merge of a pull message, and the compression of    *)
(* the operations log.                                                     *)
(*                                                                         *)
(* Tracked schema: model A (primary key id, column name) and model B       *)
(* (primary key id, column name, foreign key a_id to A) as in              *)
(* tests/models.py; A.name carries a unique constraint, like House.address *)
(* of app-tests/server/models.py.                                          *)
(*                                                                         *)
(* The database engine and the ORM are outside the repository.  A session  *)
(* is modelled by its net effect: the rows it has written become visible   *)
(* to others at commit, and are discarded by rollback.  Integrity          *)
(* constraints (primary key, unique) are checked when the session flushes. *)
(***************************************************************************)
EXTENDS Integers, Sequences, FiniteSets, TLC

\* ------------------------------------------------------------------ bounds
MaxPk == 2
MaxMsgOps == 2
MaxVersions == 2
MaxLocalOps == 2
MaxRemoteOps == 3
MaxLogLen == 4
MaxFillOps == 2
MaxTxns == 2
MaxTxnWrites == 1
MaxDepth == 3

\* ------------------------------------------------------------- vocabulary
NULL == 0

CtA == "A"
CtB == "B"
TrackedCts == {CtA, CtB}

\* tracking takes directions: the models above are tracked for push and for
\* pull (pulled_models); CtP is a model tracked for push only, which is in
\* synched_models but not in pulled_models
CtP == "P"
PulledCts == TrackedCts
SynchedCts == TrackedCts \cup {CtP}
UniqueCts == {CtA}

Pks == 1..MaxPk
Names == {"n1", "n2"}
Commands == {"i", "u", "d"}

ObjA == [ct : {CtA}, id : Pks, name : Names, a_id : {NULL}]
BPks == {1}
ObjB == [ct : {CtB}, id : BPks, name : Names, a_id : {NULL} \cup Pks]
Obj == ObjA \cup ObjB

\* objects with a third unique value, which only the server's own writes
\* use (specification SpecMergeWide)
ObjSrv == [ct : {CtA}, id : Pks, name : {"n3"}, a_id : {NULL}]

KeyOf(r) == <<r.ct, r.id>>
OpKey(op) == <<op.content_type_id, op.row_id>>

Max(S) == CHOOSE x \in S : \A y \in S : y <= x
Min(S) == CHOOSE x \in S : \A y \in S : x <= y

\* the rows of a table with the given primary key
RowsAt(rows, ct, id) == {r \in rows : r.ct = ct /\ r.id = id}

\* a flush fails (IntegrityError) on a duplicate primary key or on a
\* duplicate value of a unique column
IntegrityViolated(rows) ==
    \E r1 \in rows, r2 \in rows :
        /\ r1 # r2
        /\ r1.ct = r2.ct
        /\ \/ r1.id = r2.id
           \/ r1.ct \in UniqueCts /\ r1.name = r2.name

\* ------------------------------------------------------ core.py, models.py
\* (a latest version that is the oldest one)
GetOldestVersionId(versions) ==
    IF versions = {} THEN NULL
    ELSE Min({v.version_id : v \in versions})

\* get_latest_version_id: the greatest version identifier, or None
GetLatestVersionId(versions) ==
    IF versions = {} THEN NULL
    ELSE Max({v.version_id : v \in versions})

\* the object of the container (message payload) with the given key
ContainerQuery(payload, ct, id) == {o \in payload : o.ct = ct /\ o.id = id}

\* Operation.perform: the rows after the operation, or an OperationError.
\* dup: the session now holds a new object whose primary key a stored row
\* has (the next flush fails).
Perform(op, payload, rows) ==
    LET objs == ContainerQuery(payload, op.content_type_id, op.row_id)
        same == RowsAt(rows, op.content_type_id, op.row_id)
        others == rows \ same
        out(r, e, d) == [rows |-> r, error |-> e, dup |-> d]
    IN  IF op.content_type_id \notin TrackedCts
        THEN out(rows, TRUE, FALSE)
        ELSE IF op.command = "i"
        THEN IF objs = {} THEN out(rows, TRUE, FALSE)
             ELSE out(rows \cup objs, FALSE, same # {})
        ELSE IF op.command = "u"
        THEN IF objs = {} THEN out(rows, TRUE, FALSE)
             ELSE out(others \cup objs, FALSE, FALSE)
        ELSE IF op.command = "d"
        THEN out(others, FALSE, FALSE)
        ELSE out(rows, TRUE, FALSE)

\* ------------------------------------------------------- messages/push.py
Portion(ops) ==
    [i \in 1..Len(ops) |->
        <<ops[i].row_id, ops[i].content_type_id, ops[i].command>>]

\* hashlib.sha512(secret + portion): an ideal (collision free) hash
Sha512(secret, portion) == <<secret, portion>>

NoKey == <<"", <<>>>>

Sign(secret, ops) == Sha512(secret, Portion(ops))

\* (a check that compares the secret and leaves the operations out)
IsLegitSecretOnly(m, nodes) ==
    IF m.key = NoKey \/ m.node_id = NULL THEN FALSE
    ELSE LET node == CHOOSE n \in nodes : n.node_id = m.node_id
         IN  m.key[1] = node.secret

IsLegit(m, nodes) ==
    IF m.key = NoKey \/ m.node_id = NULL THEN FALSE
    ELSE LET node == CHOOSE n \in nodes : n.node_id = m.node_id
         IN  m.key = Sha512(node.secret, Portion(m.operations))

\* ---------------------------------------------------- server/conflicts.py
\* find_unique_conflicts (server): the stored rows whose unique value is
\* taken by an object of the push, paired with the value the push gives them
SrvFindUniqueConflicts(m, rows) ==
    {c \in [object : rows, new_name : Names] :
        \E i \in 1..Len(m.operations) :
            LET op == m.operations[i]
                remote == ContainerQuery(m.payload, op.content_type_id,
                                         op.row_id)
                pushed == ContainerQuery(m.payload, op.content_type_id,
                                         c.object.id)
            IN  /\ op.command # "d"
                /\ op.content_type_id \in TrackedCts
                /\ op.content_type_id \in UniqueCts
                /\ remote # {}
                /\ c.object.ct = op.content_type_id
                /\ \E ro \in remote : c.object.name = ro.name
                /\ c.object.id # op.row_id
                /\ \E po \in pushed : c.new_name = po.name}

\* the conflicting rows take their new unique values (delete and reinsert)
ResolveUnique(conflicts, rows) ==
    (rows \ {c.object : c \in conflicts})
        \cup {[c.object EXCEPT !.name = c.new_name] : c \in conflicts}

\* ----------------------------------------------------- server/handlers.py
Result(kind, reason, vid) ==
    [kind |-> kind, reason |-> reason, new_version_id |-> vid]

NoResult == Result("none", "", NULL)

\* (the admission checks with the comparison of the version ids reversed)
AdmissionReversed(latest, m, nodes) ==
    IF latest # m.latest_version_id
    THEN IF latest = NULL THEN Result("PushRejected", "version", NULL)
         ELSE IF m.latest_version_id = NULL
              THEN Result("PullSuggested", "version", NULL)
         ELSE IF m.latest_version_id > latest
              THEN Result("PullSuggested", "version", NULL)
         ELSE Result("PushRejected", "version", NULL)
    ELSE IF m.operations = <<>>
    THEN Result("PushRejected", "no operations", NULL)
    ELSE IF ~IsLegit(m, nodes)
    THEN Result("PushRejected", "not signed", NULL)
    ELSE Result("pass", "", NULL)

\* the admission checks of handle_push, in the order of the code
Admission(latest, m, nodes) ==
    IF latest # m.latest_version_id
    THEN IF latest = NULL THEN Result("PushRejected", "version", NULL)
         ELSE IF m.latest_version_id = NULL
              THEN Result("PullSuggested", "version", NULL)
         ELSE IF m.latest_version_id < latest
              THEN Result("PullSuggested", "version", NULL)
         ELSE Result("PushRejected", "version", NULL)
    ELSE IF m.operations = <<>>
    THEN Result("PushRejected", "no operations", NULL)
    ELSE IF ~IsLegit(m, nodes)
    THEN Result("PushRejected", "not signed", NULL)
    ELSE Result("pass", "", NULL)

\* phase II: the operations with a tracked model, in the order of the list;
\* performed: the operations that were performed, in the sequence in which
\* they were.
\* An update or a delete queries the session, which flushes what is pending
\* first; integrity: a flush failed, or the flush to come will fail.
RECURSIVE PerformOps(_, _, _, _, _)
PerformOps(ops, i, payload, rows, dup) ==
    LET bad == dup \/ IntegrityViolated(rows)
        out(e, g) == [rows |-> rows, error |-> e, integrity |-> g,
                      performed |-> <<>>]
    IN  IF i > Len(ops) THEN out(FALSE, bad)
        ELSE IF ops[i].content_type_id \notin TrackedCts
        THEN PerformOps(ops, i + 1, payload, rows, dup)
        ELSE IF ops[i].command \in {"u", "d"} /\ bad
        THEN out(FALSE, TRUE)
        ELSE LET r == Perform(ops[i], payload, rows)
             IN  IF r.error THEN [rows |-> r.rows, error |-> TRUE,
                                  integrity |-> FALSE, performed |-> <<>>]
                 ELSE [PerformOps(ops, i + 1, payload, r.rows,
                                  dup \/ r.dup)
                          EXCEPT !.performed = <<ops[i]>> \o @]

\* sorted(message.operations, key=attr('order')): the operations by
\* ascending order field
RECURSIVE SortByOrder(_)
SortByOrder(ops) ==
    IF ops = {} THEN <<>>
    ELSE LET o == CHOOSE x \in ops : \A y \in ops : x.order <= y.order
         IN  <<o>> \o SortByOrder(ops \ {o})

SeqToSet(s) == {s[i] : i \in 1..Len(s)}

\* (operation rows that keep the version_id of the message's operations)
NewOperationsUnlinked(ops, firstOrder, vid) ==
    LET sorted == SortByOrder(SeqToSet(ops))
    IN  {[order |-> firstOrder + i - 1,
          row_id |-> sorted[i].row_id,
          content_type_id |-> sorted[i].content_type_id,
          command |-> sorted[i].command,
          version_id |-> sorted[i].version_id] : i \in 1..Len(sorted)}

\* phase IV: one new operation row per operation of the message, with a
\* fresh order, linked to the new version
NewOperations(ops, firstOrder, vid) ==
    LET sorted == SortByOrder(SeqToSet(ops))
    IN  {[order |-> firstOrder + i - 1,
          row_id |-> sorted[i].row_id,
          content_type_id |-> sorted[i].content_type_id,
          command |-> sorted[i].command,
          version_id |-> vid] : i \in 1..Len(sorted)}

\* ------------------------------------------------------------ server state
VARIABLES
    dialect,      \* the DBMS of the server's engine
    srvRows,      \* committed rows of the tracked tables
    srvVersions,  \* committed rows of sync_versions
    srvOps,       \* committed rows of sync_operations
    srvNodes,     \* committed rows of sync_nodes
    verSeq,       \* greatest version_id the server ever issued
    opSeq,        \* greatest order the server ever issued
    lock,         \* holder of SQLite's exclusive transaction, or "free"
    hs,           \* per request thread: the running handle_push call
    srvPkSeq,     \* per tracked table: greatest primary key it ever held
    cliRows,      \* the node: committed rows of the tracked tables
    cliOps,       \* the node: committed rows of sync_operations
    cliVersions,  \* the node: committed rows of sync_versions
    cliPkSeq,     \* the node: greatest primary key per tracked table
    cliOpSeq,     \* the node: greatest order it ever issued
    pull,         \* the node: the running pull() call
    listening,    \* the node: core.listening, the process-wide flag
    queue,        \* the node: tracking._operations_queue
    us,           \* the node: per user session, its open transaction
    stored,       \* history: which write each stored operation came from
    frames,       \* the calls of with_listening procedures in progress
    push,         \* the node: the running push() call
    repair        \* the node: the running repair() call

srvVars == <<dialect, srvRows, srvVersions, srvOps, srvNodes, verSeq, opSeq,
             lock, hs, srvPkSeq>>

cliVars == <<cliRows, cliOps, cliVersions, cliPkSeq, cliOpSeq, pull>>

\* the state of the node's process besides its database
procVars == <<listening, queue, us, stored, frames, push, repair>>

Handlers == {"h1", "h2"}
Dialects == {"sqlite", "mysql", "other"}

RegisteredNodes ==
    {[node_id |-> 1, secret |-> "s1"], [node_id |-> 2, secret |-> "s2"]}

EmptyMessage ==
    [node_id |-> NULL, key |-> NoKey, latest_version_id |-> NULL,
     operations |-> <<>>, payload |-> {}]

IdleCall ==
    [pc |-> "idle", msg |-> EmptyMessage, base |-> NULL, res |-> NoResult,
     pre |-> [rows |-> {}, versions |-> {}, ops |-> {}],
     rows |-> {}, touched |-> {}, performed |-> <<>>,
     version |-> [version_id |-> NULL, node_id |-> NULL], newops |-> {}]

\* ---------------------------------------------------- the push messages
MsgOp ==
    [order : 1..MaxMsgOps, row_id : Pks, content_type_id : {CtA},
     command : Commands, version_id : {NULL}]

\* operation lists as a client builds them from a compressed log: one
\* operation per object, distinct order values; the position in the list
\* is independent of the order field
OpLists ==
    {s \in UNION {[1..n -> MsgOp] : n \in 0..MaxMsgOps} :
        /\ \A i \in 1..Len(s) : s[i].order <= Len(s)
        /\ \A i \in 1..Len(s), j \in 1..Len(s) :
              i < j => /\ s[i].order # s[j].order
                       /\ s[i].row_id < s[j].row_id}

\* payloads: at most one object per key, only for non-delete operations;
\* the object of an operation may be missing
Payloads(ops) ==
    {P \in SUBSET ObjA :
        /\ \A o1 \in P, o2 \in P : KeyOf(o1) = KeyOf(o2) => o1 = o2
        /\ \A o \in P : \E i \in 1..Len(ops) :
              /\ ops[i].command # "d"
              /\ OpKey(ops[i]) = KeyOf(o)}

SecretOf(n) == (CHOOSE x \in RegisteredNodes : x.node_id = n).secret

Reverse(s) == [i \in 1..Len(s) |-> s[Len(s) + 1 - i]]

\* a signed list with one tuple changed afterwards
ChangeFirst(s) ==
    IF s = <<>> THEN s
    ELSE [s EXCEPT ![1].command =
              IF s[1].command = "d" THEN "u" ELSE "d"]

Lvs == NULL..MaxVersions

\* messages that only differ from what the server expects in the fields
\* examined at admission
ProbeOps == <<[order |-> 1, row_id |-> 1, content_type_id |-> CtA,
              command |-> "d", version_id |-> NULL]>>
ProbeOps2 == <<[order |-> 2, row_id |-> 1, content_type_id |-> CtA,
               command |-> "d", version_id |-> NULL],
              [order |-> 1, row_id |-> 2, content_type_id |-> CtA,
               command |-> "d", version_id |-> NULL]>>

\* well signed messages of node 1 and 2
SignedMessages(lvs, nodeIds, lists) ==
    UNION {{[node_id |-> n, key |-> Sign(SecretOf(n), ops),
             latest_version_id |-> lv, operations |-> ops, payload |-> P] :
               n \in nodeIds, lv \in lvs, P \in Payloads(ops)} :
           ops \in lists}

\* messages whose key was altered (or is missing), whose operations were
\* changed or reordered after signing, or whose node is not given
AlteredKeys(ops) ==
    {NoKey, Sign("forged", ops), Sign(SecretOf(2), ops),
     Sign(SecretOf(1), Reverse(ops)), Sign(SecretOf(1), ChangeFirst(ops))}

TamperedMessages(lvs) ==
    UNION {{[node_id |-> 1, key |-> k, latest_version_id |-> lv,
             operations |-> ops, payload |-> {}] :
               lv \in lvs, k \in AlteredKeys(ops)} :
           ops \in {ProbeOps, ProbeOps2}}
    \cup
    {[node_id |-> NULL, key |-> Sign(SecretOf(1), ProbeOps),
      latest_version_id |-> lv, operations |-> ProbeOps, payload |-> {}] :
        lv \in lvs}

PushMessages(latest) ==
    SignedMessages({latest}, {1}, OpLists)
        \cup SignedMessages(Lvs, {1, 2}, {<<>>, ProbeOps, ProbeOps2})
        \cup TamperedMessages(Lvs)

\* ------------------------------------------------------------- handle_push
\* with_transaction: begin_transaction (on SQLite: BEGIN EXCLUSIVE
\* TRANSACTION), then the admission checks of handle_push.  A rejection
\* raises, and with_transaction rolls the session back.
\* (a rollback that keeps what the session had written so far)
RollbackKeepsWrites(h, partial) ==
    /\ srvRows' = partial
    /\ UNCHANGED <<srvVersions, srvOps, verSeq, opSeq>>

Rollback(h, partial) ==
    UNCHANGED <<srvRows, srvVersions, srvOps, verSeq, opSeq>>

Receive(h, m) ==
    /\ hs[h].pc = "idle"
    /\ dialect = "sqlite" => lock = "free"
    /\ LET latest == GetLatestVersionId(srvVersions)
           adm == Admission(latest, m, srvNodes)
           pre == [rows |-> srvRows, versions |-> srvVersions,
                   ops |-> srvOps]
       IN  IF adm.kind # "pass"
           THEN /\ hs' = [hs EXCEPT ![h] =
                       [IdleCall EXCEPT !.pc = "done", !.msg = m,
                                        !.base = latest, !.res = adm,
                                        !.pre = pre]]
                /\ Rollback(h, srvRows)
                /\ UNCHANGED lock
           ELSE /\ hs' = [hs EXCEPT ![h] =
                       [IdleCall EXCEPT !.pc = "admitted", !.msg = m,
                                        !.base = latest, !.pre = pre]]
                /\ lock' = IF dialect = "sqlite" THEN h ELSE lock
                /\ UNCHANGED <<srvRows, srvVersions, srvOps, verSeq, opSeq>>
    /\ UNCHANGED <<dialect, srvNodes, srvPkSeq, cliVars, procVars>>

\* (keys that are given out again)
NextVersionIdReused ==
    IF srvVersions = {} THEN 1 ELSE GetLatestVersionId(srvVersions)

\* the session's autoincrement keys: SQLite takes the greatest key of the
\* table plus one, the other engines a counter
NextVersionId ==
    IF dialect = "sqlite" THEN GetLatestVersionId(srvVersions) + 1
    ELSE verSeq + 1

NextOrder ==
    IF dialect = "sqlite"
    THEN IF srvOps = {} THEN 1 ELSE Max({o.order : o \in srvOps}) + 1
    ELSE opSeq + 1

\* phases I to IV of handle_push, up to the last flush.  Without the
\* exclusive transaction the engine still makes a write wait for the end of
\* another transaction that wrote the same row or the same unique value.
Apply(h) ==
    /\ hs[h].pc = "admitted"
    /\ LET m == hs[h].msg
           conflicts == SrvFindUniqueConflicts(m, srvRows)
           rows1 == ResolveUnique(conflicts, srvRows)
           r == PerformOps(m.operations, 1, m.payload, rows1, FALSE)
           written == (r.rows \ srvRows) \cup (srvRows \ r.rows)
       IN  \A g \in Handlers \ {h} :
              hs[g].pc = "flushed" =>
                 \A x \in written :
                    /\ KeyOf(x) \notin hs[g].touched
                    /\ \A y \in hs[g].rows :
                          KeyOf(y) \in hs[g].touched =>
                             ~IntegrityViolated({x, y})
    /\ LET m == hs[h].msg
           conflicts == SrvFindUniqueConflicts(m, srvRows)
           rows1 == ResolveUnique(conflicts, srvRows)
           r == PerformOps(m.operations, 1, m.payload, rows1, FALSE)
           vid == NextVersionId
           newops == NewOperations(m.operations, NextOrder, vid)
           fail(kind, reason, partial) ==
               /\ hs' = [hs EXCEPT ![h] =
                      [@ EXCEPT !.pc = "done",
                                !.res = Result(kind, reason, NULL)]]
               /\ Rollback(h, partial)
               /\ lock' = IF lock = h THEN "free" ELSE lock
       IN  IF IntegrityViolated(rows1)
           THEN fail("IntegrityError", "flush", rows1)
           ELSE IF r.error
           THEN fail("PushRejected", "operation not performed", r.rows)
           ELSE IF r.integrity
           THEN fail("IntegrityError", "flush", r.rows)
           ELSE /\ hs' = [hs EXCEPT ![h] =
                      [@ EXCEPT !.pc = "flushed",
                                !.rows = r.rows,
                                !.performed = r.performed,
                                !.touched =
                                    {KeyOf(x) : x \in
                                        (r.rows \ srvRows) \cup
                                        (srvRows \ r.rows)},
                                !.version = [version_id |-> vid,
                                             node_id |-> m.node_id],
                                !.newops = newops]]
                /\ verSeq' = IF vid > verSeq THEN vid ELSE verSeq
                /\ opSeq' = Max({opSeq} \cup {o.order : o \in newops})
                /\ UNCHANGED <<srvRows, srvVersions, srvOps, lock>>
    /\ UNCHANGED <<dialect, srvNodes, srvPkSeq, cliVars, procVars>>

\* session.commit(), end_transaction, and the return of new_version_id
Commit(h) ==
    /\ hs[h].pc = "flushed"
    /\ srvRows' = {x \in srvRows : KeyOf(x) \notin hs[h].touched}
                    \cup {x \in hs[h].rows : KeyOf(x) \in hs[h].touched}
    /\ srvVersions' = srvVersions \cup {hs[h].version}
    /\ srvOps' = srvOps \cup hs[h].newops
    /\ hs' = [hs EXCEPT ![h] =
           [@ EXCEPT !.pc = "done",
                     !.res = Result("ok", "", hs[h].version.version_id)]]
    /\ lock' = IF lock = h THEN "free" ELSE lock
    /\ srvPkSeq' = [ct \in TrackedCts |->
                       Max({srvPkSeq[ct]} \cup
                           {x.id : x \in {y \in hs[h].rows : y.ct = ct}})]
    /\ UNCHANGED <<dialect, srvNodes, verSeq, opSeq, cliVars, procVars>>

\* ---------------------------------------------------- client/compression.py
Unversioned(ops) == {o \in ops : o.version_id = NULL}

Oldest(S) == CHOOSE x \in S : \A y \in S : x.order <= y.order
Newest(S) == CHOOSE x \in S : \A y \in S : y.order <= x.order

\* _assert_operation_sequence: whether the operations S of one object raise
\* no warning (only updates between the oldest and the newest and, when
\* there are several, no delete first and no insert last)
AssertOperationSequence(S) ==
    /\ \A x \in S \ {Oldest(S), Newest(S)} : x.command = "u"
    /\ Cardinality(S) > 1 =>
          Oldest(S).command # "d" /\ Newest(S).command # "i"

\* (a first pass that deletes nothing)
CompressSeqsNone(ops) ==
    ops

\* compress, first pass: per object, the sequence of its unversioned
\* operations loses what is superfluous
CompressSeqs(ops) ==
    LET U == Unversioned(ops)
        seq(o) == {x \in U : OpKey(x) = OpKey(o)}
        deleted(o) ==
            LET S == seq(o)
                old == Oldest(S)
                new == Newest(S)
                updates == \A x \in S \ {old} : x.command = "u"
            IN  /\ Cardinality(S) > 1
                /\ IF old.command = "i"
                   THEN IF updates THEN o # old
                        ELSE new.command = "d"
                   ELSE IF old.command = "u"
                   THEN IF updates THEN o # new
                        ELSE new.command = "d" /\ o # new
                   ELSE FALSE
    IN  {o \in ops : o \notin U \/ ~deleted(o)}

\* compress, second pass ("repair inconsistencies"), for one operation:
\* whether it is deleted
Redundant(o, ops, rows) ==
    LET same == {x \in Unversioned(ops) : OpKey(x) = OpKey(o)}
        subsequent == {x \in same : x.order > o.order}
    IN  \/ /\ o.command \in {"i", "u"}
           /\ RowsAt(rows, o.content_type_id, o.row_id) = {}
        \/ /\ o.command = "u"
           /\ \E x \in subsequent : x.command = "i"
           /\ \A x \in subsequent : x.command # "d"
        \/ \E x \in same : x.command = o.command /\ x.order # o.order

\* the second pass over the unversioned operations, from the newest to the
\* oldest; todo are those still to visit
RECURSIVE Repair(_, _, _)
Repair(todo, ops, rows) ==
    IF todo = {} THEN ops
    ELSE CHOOSE r \in
             {Repair(todo \ {o},
                     IF o.content_type_id \in TrackedCts
                        /\ Redundant(o, ops, rows)
                     THEN ops \ {o} ELSE ops,
                     rows) : o \in {Newest(todo)}} : TRUE

\* compress(): the operations table it commits
Compress(ops, rows) ==
    LET c == CompressSeqs(ops)
    IN  Repair(Unversioned(c), c, rows)

\* (a compression that keeps the newest update of a group of updates, not
\* the oldest)
CompressedOperationsNewest(ops) ==
    LET seq(o) == {x \in ops : OpKey(x) = OpKey(o)}
        kept(o) ==
            LET S == seq(o)
                first == Oldest(S)
                last == Newest(S)
            IN  IF Cardinality(S) = 1 THEN TRUE
                ELSE IF first.command = "i"
                THEN last.command # "d" /\ o = first
                ELSE IF first.command = "u"
                THEN o = last
                ELSE IF last.command = "d" THEN o = first ELSE o = last
        result(o) ==
            IF /\ Cardinality(seq(o)) > 1
               /\ Oldest(seq(o)).command = "d"
               /\ o.command = "i"
            THEN [o EXCEPT !.command = "u"]
            ELSE o
    IN  SortByOrder({result(o) : o \in {x \in ops : kept(x)}})

\* (a compression that takes one step only: every group of more than one
\* operation loses its newest)
CompressedOperationsOneStep(ops) ==
    LET seq(o) == {x \in ops : OpKey(x) = OpKey(o)}
    IN  SortByOrder({o \in ops : Cardinality(seq(o)) = 1
                                    \/ o # Newest(seq(o))})

\* compressed_operations: one operation per object, sorted by order
CompressedOperations(ops) ==
    LET seq(o) == {x \in ops : OpKey(x) = OpKey(o)}
        kept(o) ==
            LET S == seq(o)
                first == Oldest(S)
                last == Newest(S)
            IN  IF Cardinality(S) = 1 THEN TRUE
                ELSE IF first.command = "i"
                THEN last.command # "d" /\ o = first
                ELSE IF first.command = "u"
                THEN IF last.command = "d" THEN o = last ELSE o = first
                ELSE IF last.command = "d" THEN o = first ELSE o = last
        result(o) ==
            IF /\ Cardinality(seq(o)) > 1
               /\ Oldest(seq(o)).command = "d"
               /\ o.command = "i"
            THEN [o EXCEPT !.command = "u"]
            ELSE o
    IN  SortByOrder({result(o) : o \in {x \in ops : kept(x)}})

\* ------------------------------------------------------ client/conflicts.py
Pairs(pullOps, localOps) == (1..Len(pullOps)) \X (1..Len(localOps))

FindDirectConflicts(pullOps, localOps) ==
    {c \in Pairs(pullOps, localOps) :
        /\ pullOps[c[1]].command \in {"u", "d"}
        /\ localOps[c[2]].command \in {"u", "d"}
        /\ OpKey(pullOps[c[1]]) = OpKey(localOps[c[2]])}

\* the objects that depend by foreign key on the object of the operation
RelatedIds(op, objs) ==
    IF op.content_type_id = CtA
    THEN {<<CtB, b.id>> : b \in {r \in objs : r.ct = CtB
                                              /\ r.a_id = op.row_id}}
    ELSE {}

FindDependencyConflicts(pullOps, localOps, rows) ==
    {c \in Pairs(pullOps, localOps) :
        /\ pullOps[c[1]].command = "d"
        /\ localOps[c[2]].command \in {"i", "u"}
        /\ OpKey(localOps[c[2]]) \in RelatedIds(pullOps[c[1]], rows)}

FindReversedDependencyConflicts(pullOps, localOps, payload) ==
    {c \in Pairs(pullOps, localOps) :
        /\ localOps[c[2]].command = "d"
        /\ pullOps[c[1]].command \in {"i", "u"}
        /\ OpKey(pullOps[c[1]]) \in RelatedIds(localOps[c[2]], payload)}

FindInsertConflicts(pullOps, localOps) ==
    {c \in Pairs(pullOps, localOps) :
        /\ localOps[c[2]].command = "i"
        /\ pullOps[c[1]].command = "i"
        /\ OpKey(pullOps[c[1]]) = OpKey(localOps[c[2]])}

NoCase == [kind |-> "none", pk |-> NULL, new_name |-> ""]

\* (a classification that lets pass two inserts of the same primary key
\* with the same unique value)
UniqueCaseSamePkPasses(op, unversionedPks, payload, rows) ==
    LET remote == ContainerQuery(payload, op.content_type_id, op.row_id)
        value == (CHOOSE o \in remote : TRUE).name
        match == {r \in rows : r.ct = op.content_type_id /\ r.name = value}
        conflicting == CHOOSE r \in match : TRUE
        pk == conflicting.id
        remoteObj == ContainerQuery(payload, op.content_type_id, pk)
        new == (CHOOSE o \in remoteObj : TRUE).name
    IN  IF op.content_type_id \notin UniqueCts \/ remote = {} THEN NoCase
        ELSE IF match = {} THEN NoCase
        ELSE IF pk = op.row_id THEN NoCase
        ELSE IF remoteObj # {} /\ pk \notin unversionedPks
        THEN IF conflicting.name # new
             THEN [kind |-> "conflict", pk |-> pk, new_name |-> new]
             ELSE NoCase
        ELSE [kind |-> "error", pk |-> pk, new_name |-> ""]

\* find_unique_conflicts (client), for one pulled operation: a solvable
\* conflict, an error, or nothing
UniqueCase(op, unversionedPks, payload, rows) ==
    LET remote == ContainerQuery(payload, op.content_type_id, op.row_id)
        value == (CHOOSE o \in remote : TRUE).name
        match == {r \in rows : r.ct = op.content_type_id /\ r.name = value}
        conflicting == CHOOSE r \in match : TRUE
        pk == conflicting.id
        remoteObj == ContainerQuery(payload, op.content_type_id, pk)
        new == (CHOOSE o \in remoteObj : TRUE).name
    IN  IF op.content_type_id \notin UniqueCts \/ remote = {} THEN NoCase
        ELSE IF match = {} THEN NoCase
        ELSE IF pk = op.row_id
        THEN IF op.command = "i"
             THEN [kind |-> "error", pk |-> pk, new_name |-> ""]
             ELSE NoCase
        ELSE IF remoteObj # {} /\ pk \notin unversionedPks
        THEN IF conflicting.name # new
             THEN [kind |-> "conflict", pk |-> pk, new_name |-> new]
             ELSE NoCase
        ELSE [kind |-> "error", pk |-> pk, new_name |-> ""]

\* find_unique_conflicts (client): the solvable conflicts and the errors
CliFindUniqueConflicts(pullOps, localOps, payload, rows) ==
    LET pks(ct) == {localOps[l].row_id : l \in
                       {x \in 1..Len(localOps) :
                           /\ localOps[x].content_type_id = ct
                           /\ localOps[x].command # "d"}}
        case(p) == UniqueCase(pullOps[p], pks(pullOps[p].content_type_id),
                              payload, rows)
        of(kind) == {p \in 1..Len(pullOps) : case(p).kind = kind}
    IN  [conflicts |->
            {[object |-> CHOOSE r \in rows :
                            /\ r.ct = pullOps[p].content_type_id
                            /\ r.id = case(p).pk,
              new_name |-> case(p).new_name] : p \in of("conflict")},
         errors |->
            {<<pullOps[p].content_type_id, case(p).pk>> : p \in of("error")}]

\* ------------------------------------------------- client/pull.py: merge
\* session.flush(): an IntegrityError when what is pending violates a key
Flush(s) ==
    IF s.error = "" /\ (s.dup \/ IntegrityViolated(s.rows))
    THEN [s EXCEPT !.error = "IntegrityError"]
    ELSE s

\* (a purge that leaves everything where it is)
PurgeLocalKeepsOp(s, l) ==
    s

\* purgelocal: the local operation leaves the session, the conflict lists
\* and the list of unversioned operations
PurgeLocal(s, l) ==
    [s EXCEPT !.live = @ \ {l},
              !.direct = {c \in @ : c[2] # l},
              !.dependency = {c \in @ : c[2] # l},
              !.reversed = {c \in @ : c[2] # l},
              !.insert = {c \in @ : c[2] # l}]

Extract(p, conflicts) == {c[2] : c \in {x \in conflicts : x[1] = p}}

\* (a resolution that leaves a direct conflict as it found it)
DirectPairIgnored(s, p, l) ==
    s

\* one direct conflict of pulled operation p, with local operation l
DirectPair(s, p, l) ==
    LET pair == <<s.pcmd[p], s.lops[l].command>>
    IN  IF pair = <<"u", "u">> THEN [s EXCEPT !.can = FALSE]
        ELSE IF pair = <<"u", "d">>
        THEN PurgeLocal([s EXCEPT !.pcmd[p] = "i"], l)
        ELSE IF pair = <<"d", "u">>
        THEN Flush([s EXCEPT !.lops[l].command = "i", !.reverted = TRUE])
        ELSE PurgeLocal(s, l)

RECURSIVE ResolveDirect(_, _, _)
ResolveDirect(s, p, todo) ==
    IF todo = {} \/ s.error # "" THEN s
    ELSE ResolveDirect(DirectPair(s, p, Min(todo)), p, todo \ {Min(todo)})

\* (a dependency conflict whose reinsertion is put after the unversioned
\* operations instead of before them)
ResolveDependencyAtEnd(s, op, p) ==
    IF s.error # "" \/ Extract(p, s.dependency) = {} \/ s.reverted THEN s
    ELSE LET order == Max({s.lops[l].order : l \in s.live}) + 1
             reinsert == [order |-> order, row_id |-> op.row_id,
                          content_type_id |-> op.content_type_id,
                          command |-> "i", version_id |-> NULL]
         IN  [Flush([s EXCEPT !.can = FALSE])
                 EXCEPT !.added = @ \cup {reinsert}]

\* (a dependency conflict that is left as it is)
ResolveDependencyIgnored(s, op, p) ==
    s

\* a dependency conflict: the pulled delete is not performed, and an insert
\* of its object is put before the unversioned operations
ResolveDependency(s, op, p) ==
    IF s.error # "" \/ Extract(p, s.dependency) = {} \/ s.reverted THEN s
    ELSE LET order == Min({s.lops[l].order : l \in s.live})
             shifted == [l \in DOMAIN s.lops |->
                            IF l \in s.live
                            THEN [s.lops[l] EXCEPT !.order = @ + 1]
                            ELSE s.lops[l]]
             reinsert == [order |-> order, row_id |-> op.row_id,
                          content_type_id |-> op.content_type_id,
                          command |-> "i", version_id |-> NULL]
         IN  [Flush([s EXCEPT !.can = FALSE, !.lops = shifted])
                 EXCEPT !.added = @ \cup {reinsert}]

\* (reversed dependency conflicts whose local operation stays in the log,
\* as the insert it was turned into)
RECURSIVE ResolveReversedKeepsOp(_, _, _, _)
ResolveReversedKeepsOp(s, payload, p, todo) ==
    IF todo = {} \/ s.error # "" THEN s
    ELSE LET l == Min(todo)
             r == Perform([s.lops[l] EXCEPT !.command = "i"], payload,
                          s.rows)
             s1 == IF r.error THEN [s EXCEPT !.error = "OperationError"]
                   ELSE [s EXCEPT !.rows = r.rows, !.dup = @ \/ r.dup,
                                  !.lops[l].command = "i"]
         IN  ResolveReversedKeepsOp(s1, payload, p, todo \ {l})

\* reversed dependency conflicts: the locally deleted objects are inserted
\* again from the message
RECURSIVE ResolveReversed(_, _, _, _)
ResolveReversed(s, payload, p, todo) ==
    IF todo = {} \/ s.error # "" THEN s
    ELSE LET l == Min(todo)
             r == Perform([s.lops[l] EXCEPT !.command = "i"], payload,
                          s.rows)
             s1 == IF r.error THEN [s EXCEPT !.error = "OperationError"]
                   ELSE PurgeLocal([s EXCEPT !.rows = r.rows,
                                             !.dup = @ \/ r.dup], l)
         IN  ResolveReversed(s1, payload, p, todo \ {l})

\* update_local_id: the row takes the new primary key, and so do the
\* foreign keys that pointed at the old one
UpdateLocalId(rows, ct, old, new) ==
    {IF r.ct = ct /\ r.id = old THEN [r EXCEPT !.id = new]
     ELSE IF ct = CtA /\ r.ct = CtB /\ r.a_id = old
     THEN [r EXCEPT !.a_id = new]
     ELSE r : r \in rows}

\* (insert conflicts whose new primary key is taken from the local rows
\* alone, whatever keys the message holds)
RECURSIVE ResolveInsertLocalMax(_, _, _, _, _)
ResolveInsertLocalMax(s, op, payload, p, todo) ==
    IF todo = {} \/ s.error # "" THEN s
    ELSE LET l == Min(todo)
             ct == op.content_type_id
             s0 == Flush(s)
             localIds == {r.id : r \in {x \in s0.rows : x.ct = ct}}
             next == Max(localIds) + 1
             old == s0.lops[l].row_id
             s1 == IF s0.error # "" THEN s0
                   ELSE IF RowsAt(s0.rows, ct, old) = {}
                   THEN [s0 EXCEPT !.error = "AttributeError"]
                   ELSE [Flush([s0 EXCEPT
                            !.rows = UpdateLocalId(s0.rows, ct, old, next)])
                         EXCEPT !.lops[l].row_id = next]
         IN  ResolveInsertLocalMax(s1, op, payload, p, todo \ {l})

\* insert conflicts: the local object moves to a free primary key
RECURSIVE ResolveInsert(_, _, _, _, _)
ResolveInsert(s, op, payload, p, todo) ==
    IF todo = {} \/ s.error # "" THEN s
    ELSE LET l == Min(todo)
             ct == op.content_type_id
             s0 == Flush(s)
             remoteIds == {o.id : o \in {x \in payload : x.ct = ct}}
             localIds == {r.id : r \in {x \in s0.rows : x.ct = ct}}
             next == Max(remoteIds \cup localIds) + 1
             old == s0.lops[l].row_id
             s1 == IF s0.error # "" THEN s0
                   ELSE IF remoteIds = {}
                   THEN [s0 EXCEPT !.error = "ValueError"]
                   ELSE IF RowsAt(s0.rows, ct, old) = {}
                   THEN [s0 EXCEPT !.error = "AttributeError"]
                   ELSE [Flush([s0 EXCEPT
                            !.rows = UpdateLocalId(s0.rows, ct, old, next)])
                         EXCEPT !.lops[l].row_id = next]
         IN  ResolveInsert(s1, op, payload, p, todo \ {l})

\* (a pulled operation that is performed whatever stood in its way)
PerformPulledRegardless(s, op, payload, p) ==
    IF s.error # "" THEN s
    ELSE LET r == Perform([op EXCEPT !.command = s.pcmd[p]], payload, s.rows)
         IN  IF r.error THEN [s EXCEPT !.error = "OperationError"]
             ELSE Flush([s EXCEPT
                     !.rows = r.rows,
                     !.dup = @ \/ r.dup,
                     !.performed = @ \cup
                         {[key |-> OpKey(op), command |-> s.pcmd[p]]}])

\* the pulled operation is performed, when nothing stood in its way
PerformPulled(s, op, payload, p) ==
    IF s.error # "" \/ ~s.can THEN s
    ELSE LET cmd == s.pcmd[p]
             s0 == IF cmd \in {"u", "d"} THEN Flush(s) ELSE s
             r == Perform([op EXCEPT !.command = cmd], payload, s0.rows)
         IN  IF s0.error # "" THEN s0
             ELSE IF r.error THEN [s0 EXCEPT !.error = "OperationError"]
             ELSE Flush([s0 EXCEPT
                     !.rows = r.rows,
                     !.dup = @ \/ r.dup,
                     !.performed = @ \cup
                         {[key |-> OpKey(op), command |-> cmd]}])

\* --------------------------------------------- messages/pull.py: fill_for
\* (a response that leaves out the operations of the newest version)
FillForButNewest(latest, requestOps, versions, ops, rows) ==
    LET vs == {v \in versions : latest = NULL \/ v.version_id > latest}
        sent == {o \in ops : /\ \E v \in vs : o.version_id = v.version_id
                             /\ o.content_type_id \in PulledCts
                             /\ \E v \in vs : v.version_id > o.version_id}
        objs == {r \in rows : \E o \in sent :
                    o.command # "d" /\ OpKey(o) = KeyOf(r)}
    IN  [operations |-> SortByOrder(sent), versions |-> vs,
         payload |-> objs]

\* (a message that leaves the delete operations out)
FillForNoDeletes(latest, requestOps, versions, ops, rows) ==
    LET vs == {v \in versions : latest = NULL \/ v.version_id > latest}
        sent == {o \in ops : /\ \E v \in vs : o.version_id = v.version_id
                             /\ o.content_type_id \in PulledCts
                             /\ o.command # "d"}
        objs == {r \in rows : \E o \in sent : OpKey(o) = KeyOf(r)}
    IN  [operations |-> SortByOrder(sent), versions |-> vs,
         payload |-> objs]

\* the versions after the node's latest, their operations, the objects of
\* the operations that are not deletes, and the parents of these that an
\* unversioned delete of the node refers to
FillFor(latest, requestOps, versions, ops, rows) ==
    LET vs == {v \in versions : latest = NULL \/ v.version_id > latest}
        sent == {o \in ops : /\ \E v \in vs : o.version_id = v.version_id
                             /\ o.content_type_id \in PulledCts}
        objs == {r \in rows : \E o \in sent :
                    o.command # "d" /\ OpKey(o) = KeyOf(r)}
        parents == {a \in rows :
                       /\ a.ct = CtA
                       /\ \E b \in objs : b.ct = CtB /\ b.a_id = a.id
                       /\ \E l \in requestOps :
                             l.command = "d" /\ OpKey(l) = KeyOf(a)}
    IN  [operations |-> SortByOrder(sent), versions |-> vs,
         payload |-> objs \cup parents]

\* ------------------------------------------------------ writes of the hosts
\* what the schema (tests/models.py) lets an application write through the
\* ORM: fresh primary keys on insert, unique values, valid foreign keys
FkValid(rows) ==
    \A b \in rows :
        (b.ct = CtB /\ b.a_id # NULL)
            => \E a \in rows : a.ct = CtA /\ a.id = b.a_id

Written(command, o, rows) ==
    IF command = "d" THEN rows \ {o}
    ELSE (rows \ RowsAt(rows, o.ct, o.id)) \cup {o}

ValidWrite(command, o, rows, pkSeq) ==
    /\ IF command = "i" THEN o.id = pkSeq[o.ct] + 1
       ELSE IF command = "u"
       THEN RowsAt(rows, o.ct, o.id) # {} /\ o \notin rows
       ELSE o \in rows
    /\ ~IntegrityViolated(Written(command, o, rows))
    /\ FkValid(Written(command, o, rows))

PkSeqOf(rows) ==
    [ct \in TrackedCts |->
        Max({0} \cup {r.id : r \in {x \in rows : x.ct = ct}})]

\* client/tracking.py: the listener queues one unversioned operation for
\* the write, and flush_operations stores it after the commit
ClientWrite(command, o) ==
    /\ pull.pc = "idle"
    /\ Cardinality(Unversioned(cliOps)) < MaxLocalOps
    /\ ValidWrite(command, o, cliRows, cliPkSeq)
    /\ cliRows' = Written(command, o, cliRows)
    /\ cliOps' = cliOps \cup
           {[order |-> cliOpSeq + 1, row_id |-> o.id,
             content_type_id |-> o.ct, command |-> command,
             version_id |-> NULL]}
    /\ cliOpSeq' = cliOpSeq + 1
    /\ cliPkSeq' = PkSeqOf(cliRows' \cup
                       {[ct |-> ct, id |-> cliPkSeq[ct]] :
                           ct \in TrackedCts})
    /\ UNCHANGED <<cliVersions, pull, srvVars, procVars>>

\* server/tracking.py: the listener adds one version and one operation for
\* the write
ServerWrite(command, o) ==
    /\ pull.pc = "idle"
    /\ dialect = "sqlite" => lock = "free"
    /\ Cardinality({v \in srvVersions :
                       v.version_id > GetLatestVersionId(cliVersions)})
          < MaxRemoteOps
    /\ ValidWrite(command, o, srvRows, srvPkSeq)
    /\ srvRows' = Written(command, o, srvRows)
    /\ srvVersions' = srvVersions \cup
           {[version_id |-> NextVersionId, node_id |-> NULL]}
    /\ srvOps' = srvOps \cup
           {[order |-> NextOrder, row_id |-> o.id, content_type_id |-> o.ct,
             command |-> command, version_id |-> NextVersionId]}
    /\ verSeq' = Max({verSeq, NextVersionId})
    /\ opSeq' = Max({opSeq, NextOrder})
    /\ srvPkSeq' = PkSeqOf(srvRows' \cup
                       {[ct |-> ct, id |-> srvPkSeq[ct]] :
                           ct \in TrackedCts})
    /\ UNCHANGED <<dialect, srvNodes, lock, hs, cliVars, procVars>>

\* ------------------------------------------- client/pull.py: pull, merge
\* the session of a merge: the rows as the session sees them, the unversioned
\* operations (lops; live are those not purged), the commands of the pulled
\* operations, the conflict lists, and the flags of the current iteration
NoSession ==
    [rows |-> {}, dup |-> FALSE, error |-> "", lops |-> <<>>, live |-> {},
     pcmd |-> <<>>, added |-> {}, performed |-> {}, can |-> TRUE,
     reverted |-> FALSE, direct |-> {}, dependency |-> {}, reversed |-> {},
     insert |-> {}]

IdlePull ==
    [pc |-> "idle",
     msg |-> [operations |-> <<>>, versions |-> {}, payload |-> {}],
     res |-> "", performed |-> {},
     pre |-> [rows |-> {}, ops |-> {}, versions |-> {}],
     mid |-> [rows |-> {}, ops |-> {}],
     pullOps |-> <<>>, p |-> 0, s |-> NoSession, prev |-> TRUE]

\* pull(), up to the response: compress() commits, the request carries the
\* unversioned operations, and handle_pull on the server fills the message
PullRequest ==
    /\ pull.pc = "idle"
    /\ \E ops1 \in {Compress(cliOps, cliRows)} :
          /\ cliOps' = ops1
          /\ pull' = [IdlePull EXCEPT
                         !.pc = "received",
                         !.msg = FillFor(GetLatestVersionId(cliVersions),
                                         Unversioned(ops1), srvVersions,
                                         srvOps, srvRows),
                         !.pre = [rows |-> cliRows, ops |-> cliOps,
                                  versions |-> cliVersions]]
    /\ UNCHANGED <<cliRows, cliVersions, cliPkSeq, cliOpSeq, srvVars, procVars>>

\* merge, up to its loop: with_listening(False) keeps the flag it found and
\* clears it (an exception has it put back at once); compress() commits on
\* its own; the first phase raises UniqueConstraintError or resolves the
\* unique conflicts; the second phase finds the conflicts
MergeBegin ==
    /\ pull.pc = "received"
    /\ \E ops1 \in {Compress(cliOps, cliRows)} :
       \E localOps \in {SortByOrder(Unversioned(ops1))} :
       \E pullOps \in {CompressedOperations(
                          {o \in SeqToSet(pull.msg.operations) :
                              o.content_type_id \in TrackedCts})} :
       \E unique \in {CliFindUniqueConflicts(pullOps, localOps,
                                             pull.msg.payload, cliRows)} :
       \E rows1 \in {ResolveUnique(unique.conflicts, cliRows)} :
       \E nxt \in {
               IF unique.errors # {}
               THEN [pull EXCEPT !.pc = "done",
                                 !.res = "UniqueConstraintError",
                                 !.mid = [rows |-> cliRows, ops |-> ops1],
                                 !.pullOps = pullOps]
               ELSE IF IntegrityViolated(rows1)
               THEN [pull EXCEPT !.pc = "done", !.res = "IntegrityError",
                                 !.mid = [rows |-> cliRows, ops |-> ops1],
                                 !.pullOps = pullOps]
               ELSE [pull EXCEPT
                       !.pc = "merging",
                       !.mid = [rows |-> cliRows, ops |-> ops1],
                       !.pullOps = pullOps,
                       !.p = 1,
                       !.s = [NoSession EXCEPT
                           !.rows = rows1,
                           !.lops = localOps,
                           !.live = 1..Len(localOps),
                           !.pcmd = [p \in 1..Len(pullOps) |->
                                        pullOps[p].command],
                           !.direct = FindDirectConflicts(pullOps, localOps),
                           !.dependency = FindDependencyConflicts(
                                              pullOps, localOps, rows1),
                           !.reversed = FindReversedDependencyConflicts(
                                            pullOps, localOps,
                                            pull.msg.payload),
                           !.insert = FindInsertConflicts(pullOps,
                                                          localOps)]]} :
          /\ cliOps' = ops1
          /\ pull' = [nxt EXCEPT !.prev = listening]
          /\ listening' = IF nxt.pc = "done" THEN listening ELSE FALSE
    /\ UNCHANGED <<cliRows, cliVersions, cliPkSeq, cliOpSeq, srvVars, queue,
                   us, stored, frames, push, repair>>

\* merge, one iteration of the loop over the pulled operations (third phase)
MergeOp ==
    /\ pull.pc = "merging"
    /\ pull.s.error = ""
    /\ pull.p <= Len(pull.pullOps)
    /\ \E p \in {pull.p} :
       \E op \in {pull.pullOps[p]} :
       \E s0 \in {[pull.s EXCEPT
                      !.can = ~(Extract(p, pull.s.direct) # {}
                                /\ pull.s.pcmd[p] = "d"),
                      !.reverted = FALSE]} :
       \E s1 \in {ResolveDirect(s0, p, Extract(p, s0.direct))} :
       \E s2 \in {ResolveDependency(s1, op, p)} :
       \E s3 \in {ResolveReversed(s2, pull.msg.payload, p,
                                  Extract(p, s2.reversed))} :
       \E s4 \in {ResolveInsert(s3, op, pull.msg.payload, p,
                                Extract(p, s3.insert))} :
       \E s5 \in {PerformPulled(s4, op, pull.msg.payload, p)} :
          pull' = [pull EXCEPT !.s = s5, !.p = p + 1]
    /\ UNCHANGED <<cliRows, cliOps, cliVersions, cliPkSeq, cliOpSeq, srvVars, procVars>>

\* the mappers flush in the order of their tables
CtRank(ct) == IF ct = CtA THEN 1 ELSE IF ct = CtB THEN 2 ELSE 3

\* (listeners that record whatever the session and the flag are)
RECURSIVE ListenedAlways(_, _, _, _)
ListenedAlways(internal, enabled, before, after) ==
    LET changed == (before \ after) \cup (after \ before)
        k == CHOOSE x \in {KeyOf(r) : r \in changed} :
                 \A y \in {KeyOf(r) : r \in changed} :
                    CtRank(x[1]) < CtRank(y[1])
                       \/ (x[1] = y[1] /\ x[2] <= y[2])
        was == {r \in before : KeyOf(r) = k}
        is == {r \in after : KeyOf(r) = k}
        command == IF was = {} THEN "i" ELSE IF is = {} THEN "d" ELSE "u"
    IN  IF changed = {} THEN <<>>
        ELSE <<[op |-> [row_id |-> k[2], version_id |-> NULL,
                        content_type_id |-> k[1], command |-> command],
                tag |-> <<"merge", 0, 0>>]>>
             \o ListenedAlways(internal, enabled, before \ was, after \ is)

\* the listeners of make_listener at the flushes of a session that changes
\* the rows from before to after, one call per row, by key: nothing for an
\* internal session, nothing while the flag is off
RECURSIVE Listened(_, _, _, _)
Listened(internal, enabled, before, after) ==
    LET changed == (before \ after) \cup (after \ before)
        k == CHOOSE x \in {KeyOf(r) : r \in changed} :
                 \A y \in {KeyOf(r) : r \in changed} :
                    CtRank(x[1]) < CtRank(y[1])
                       \/ (x[1] = y[1] /\ x[2] <= y[2])
        was == {r \in before : KeyOf(r) = k}
        is == {r \in after : KeyOf(r) = k}
        command == IF was = {} THEN "i" ELSE IF is = {} THEN "d" ELSE "u"
    IN  IF changed = {} THEN <<>>
        ELSE (IF internal \/ ~enabled THEN <<>>
              ELSE <<[op |-> [row_id |-> k[2], version_id |-> NULL,
                              content_type_id |-> k[1],
                              command |-> command],
                      tag |-> <<"merge", 0, 0>>]>>)
             \o Listened(internal, enabled, before \ was, after \ is)

\* merge, after its loop: the versions of the message are added (fourth
\* phase) and with_transaction commits, or an exception has it roll back;
\* the listeners have run at the flushes; with_listening puts the flag back
MergeEnd ==
    /\ pull.pc = "merging"
    /\ pull.s.error # "" \/ pull.p > Len(pull.pullOps)
    /\ \E s \in {pull.s} :
       \E newOps \in {(cliOps \ Unversioned(cliOps))
                         \cup {s.lops[l] : l \in s.live} \cup s.added} :
       \E clash \in {\/ s.dup
                     \/ IntegrityViolated(s.rows)
                     \/ \E v \in pull.msg.versions, w \in cliVersions :
                           v.version_id = w.version_id
                     \/ \E o1 \in newOps, o2 \in newOps :
                           o1 # o2 /\ o1.order = o2.order} :
          IF s.error # "" \/ clash
          THEN /\ pull' = [pull EXCEPT
                              !.pc = "done",
                              !.res = IF s.error # "" THEN s.error
                                      ELSE "IntegrityError"]
               /\ UNCHANGED <<cliRows, cliOps, cliVersions, cliPkSeq>>
          ELSE /\ cliRows' = s.rows
               /\ cliOps' = newOps
               /\ cliVersions' = cliVersions \cup pull.msg.versions
               /\ cliPkSeq' = PkSeqOf(s.rows \cup
                                  {[ct |-> ct, id |-> cliPkSeq[ct]] :
                                      ct \in TrackedCts})
               /\ pull' = [pull EXCEPT !.pc = "done", !.res = "ok",
                                       !.performed = s.performed]
    /\ queue' = queue \o Listened(TRUE, listening, cliRows, pull.s.rows)
    /\ listening' = pull.prev
    /\ UNCHANGED <<cliOpSeq, srvVars, us, stored, frames, push, repair>>

\* ------------------------------------------------- client/tracking.py
\* the application's sessions, each one in its own thread
UserSessions == {"u1", "u2"}

\* a user session: the number of its transaction, the writes it has flushed
\* in it, and the numbers of the transactions it rolled back
NewSession == [n |-> 1, writes |-> <<>>, rollbacks |-> {}]

IdlePush ==
    [pc |-> "idle", msg |-> EmptyMessage, res |-> NoResult,
     pre |-> [ops |-> {}, versions |-> {}]]

IdleRepair ==
    [pc |-> "idle", payload |-> {}, latest_version_id |-> NULL, res |-> "",
     pre |-> [rows |-> {}, ops |-> {}, versions |-> {}]]

\* the calls of with_listening procedures in progress, innermost first,
\* and the call that was left last
NoFrame == [prev |-> TRUE, enabled |-> "None", entered |-> TRUE,
            outcome |-> "none"]

NoFrames == [stack |-> <<>>, last |-> NoFrame]

InitProcess ==
    /\ listening = TRUE
    /\ queue = <<>>
    /\ us = [s \in UserSessions |-> NewSession]
    /\ stored = {}
    /\ frames = NoFrames
    /\ push = IdlePush
    /\ repair = IdleRepair

\* the rows that the session sees: the committed ones and its own writes
RECURSIVE ApplyWrites(_, _, _)
ApplyWrites(writes, i, rows) ==
    IF i > Len(writes) THEN rows
    ELSE ApplyWrites(writes, i + 1,
                     Written(writes[i].command, writes[i].o, rows))

\* the transactions that the user sessions have ended
TxnsEnded == us["u1"].n + us["u2"].n - 2

View(s) == ApplyWrites(us[s].writes, 1, cliRows)

\* the keys that the open transaction of the session has written
WrittenKeys(s) == {KeyOf(us[s].writes[i].o) : i \in 1..Len(us[s].writes)}

\* make_listener: what the listener of a command appends to the queue when
\* the session flushes the write of object o; the tag tells the session,
\* the transaction and the write
Listener(s, command, o) ==
    IF ~listening THEN <<>>
    ELSE IF command = "u" /\ o \in View(s) THEN <<>>
    ELSE IF o.ct \notin TrackedCts THEN <<>>
    ELSE <<[op |-> [row_id |-> o.id, version_id |-> NULL,
                    content_type_id |-> o.ct, command |-> command],
            tag |-> <<s, us[s].n, Len(us[s].writes) + 1>>]>>

\* a user session flushes an insert, an update (which may leave the object
\* as it is) or a delete; a row that another open transaction has written
\* is locked.  The write is remembered with the value that the flag had
\* and with whether it modified the object.
UserWrite(s, command, o) ==
    /\ TxnsEnded < MaxTxns
    /\ Len(us[s].writes) < MaxTxnWrites
    /\ \A t \in UserSessions \ {s} : KeyOf(o) \notin WrittenKeys(t)
    /\ IF command = "i" THEN RowsAt(View(s), o.ct, o.id) = {}
       ELSE IF command = "u" THEN RowsAt(View(s), o.ct, o.id) # {}
       ELSE o \in View(s)
    /\ us' = [us EXCEPT ![s].writes =
                 Append(@, [command |-> command, o |-> o,
                            listening |-> listening,
                            modified |-> ~(command = "u" /\ o \in View(s))])]
    /\ queue' = queue \o Listener(s, command, o)
    /\ UNCHANGED <<listening, stored, frames, push, repair, cliVars, srvVars>>

\* flush_operations, on after_commit: the operations of the queue are
\* stored, in the order of the queue, in a transaction of the library
FlushOperations(s) ==
    IF queue = <<>> \/ ~listening
    THEN [ops |-> cliOps, seq |-> cliOpSeq, queue |-> queue,
          stored |-> stored]
    ELSE [ops |-> cliOps \cup
                    {[order |-> cliOpSeq + i,
                      row_id |-> queue[i].op.row_id,
                      content_type_id |-> queue[i].op.content_type_id,
                      command |-> queue[i].op.command,
                      version_id |-> queue[i].op.version_id] :
                        i \in 1..Len(queue)},
          seq |-> cliOpSeq + Len(queue),
          queue |-> <<>>,
          stored |-> stored \cup
                       {[order |-> cliOpSeq + i, tag |-> queue[i].tag] :
                           i \in 1..Len(queue)}]

\* the user session commits, and after_commit calls flush_operations
UserCommit(s) ==
    /\ TxnsEnded < MaxTxns
    /\ cliRows' = View(s)
    /\ cliPkSeq' = PkSeqOf(View(s) \cup
                       {[ct |-> ct, id |-> cliPkSeq[ct]] :
                           ct \in TrackedCts})
    /\ \E f \in {FlushOperations(s)} :
          /\ cliOps' = f.ops
          /\ cliOpSeq' = f.seq
          /\ queue' = f.queue
          /\ stored' = f.stored
    /\ us' = [us EXCEPT ![s] = [n |-> @.n + 1, writes |-> <<>>,
                                rollbacks |-> @.rollbacks]]
    /\ UNCHANGED <<listening, frames, push, repair, cliVersions, pull, srvVars>>

\* empty_queue, on after_soft_rollback: the queue loses its operations
EmptyQueue(s) ==
    IF ~listening THEN queue ELSE <<>>

\* the user session rolls back, and after_soft_rollback calls empty_queue
UserRollback(s) ==
    /\ TxnsEnded < MaxTxns
    /\ queue' = EmptyQueue(s)
    /\ us' = [us EXCEPT ![s] = [n |-> @.n + 1, writes |-> <<>>,
                                rollbacks |-> @.rollbacks \cup {@.n}]]
    /\ UNCHANGED <<listening, stored, frames, push, repair, cliVars, srvVars>>

\* core.toggle_listening(enabled), enabled being None, True or False
Toggled(enabled) ==
    IF enabled = "None" THEN ~listening ELSE enabled = "True"

ToggleListening(enabled) ==
    /\ listening' = Toggled(enabled)
    /\ UNCHANGED <<queue, us, stored, frames, push, repair, cliVars, srvVars>>

\* ------------------------------------------------------- specifications
vars == <<srvVars, cliVars, procVars>>

\* The server before the calls: any consistent content of the tracked
\* tables, and k versions made by direct writes on the server
\* (server/tracking.py: one version and one operation per write).
ValidRowSets(universe) == {R \in SUBSET universe : ~IntegrityViolated(R)}

DirectVersions(k) == {[version_id |-> i, node_id |-> NULL] : i \in 1..k}

DirectOps(k) ==
    {[order |-> i, row_id |-> 1, content_type_id |-> CtA, command |-> "u",
      version_id |-> i] : i \in 1..k}

InitServer ==
    /\ dialect \in Dialects
    /\ srvRows \in ValidRowSets(ObjA)
    /\ \E k \in 0..MaxVersions :
          /\ srvVersions = DirectVersions(k)
          /\ srvOps = DirectOps(k)
          /\ verSeq = k
          /\ opSeq = k
    /\ srvNodes = RegisteredNodes
    /\ lock = "free"
    /\ hs = [h \in Handlers |-> IdleCall]
    /\ srvPkSeq = PkSeqOf(srvRows)

\* a node that has not synchronized yet
InitNode ==
    /\ cliRows = {}
    /\ cliOps = {}
    /\ cliVersions = {}
    /\ cliPkSeq = PkSeqOf({})
    /\ cliOpSeq = 0
    /\ pull = IdlePull
    /\ InitProcess

Init == InitServer /\ InitNode

\* one request thread, one call
Next ==
    \/ /\ hs["h1"].pc = "idle"
       /\ \E m \in PushMessages(GetLatestVersionId(srvVersions)) :
             Receive("h1", m)
    \/ Apply("h1")
    \/ Commit("h1")

Spec == Init /\ [][Next]_vars

\* a content type that is not in the server's synched_models
CtX == "X"

\* operation lists that hold an operation of that content type
UntrackedLists ==
    {<<[order |-> 1, row_id |-> 1, content_type_id |-> CtX, command |-> c,
        version_id |-> NULL]>> : c \in Commands}
    \cup
    {<<[order |-> 1, row_id |-> 1, content_type_id |-> CtX, command |-> "i",
        version_id |-> NULL],
       [order |-> 2, row_id |-> 1, content_type_id |-> CtA, command |-> c,
        version_id |-> NULL]>> : c \in Commands}

\* one request thread, one call, with a message of a node that also tracks
\* a model the server does not
NextUntracked ==
    \/ /\ hs["h1"].pc = "idle"
       /\ \E m \in SignedMessages({GetLatestVersionId(srvVersions)}, {1},
                                  OpLists \cup UntrackedLists) :
             Receive("h1", m)
    \/ Apply("h1")
    \/ Commit("h1")

SpecUntracked == Init /\ [][NextUntracked]_vars

\* two request threads, each handling one call; the calls may overlap as
\* far as the engine's locking allows
ConcLists ==
    {ProbeOps,
     <<[order |-> 1, row_id |-> 2, content_type_id |-> CtA, command |-> "i",
        version_id |-> NULL]>>}

ConcMessages == SignedMessages(Lvs, {1, 2}, ConcLists)

NextConc ==
    \/ \E h \in Handlers :
          /\ hs[h].pc = "idle"
          /\ \E m \in ConcMessages : Receive(h, m)
    \/ \E h \in Handlers : Apply(h)
    \/ \E h \in Handlers : Commit(h)

SpecConc == Init /\ [][NextConc]_vars

\* handle_pull on the server, statement by statement.  The first statement
\* of fill_for reads the versions after the node's latest together with
\* their operations (Version.operations is loaded by a join in the same
\* SELECT); it reads what is committed, and on SQLite it waits while a push
\* holds the exclusive transaction.
HandlePullVersions ==
    /\ pull.pc = "idle"
    /\ dialect = "sqlite" => lock = "free"
    /\ \E m \in {FillFor(GetLatestVersionId(cliVersions), Unversioned(cliOps),
                          srvVersions, srvOps, srvRows)} :
          pull' = [IdlePull EXCEPT
                      !.pc = "filling",
                      !.msg = [m EXCEPT !.payload = {}],
                      !.pre = [rows |-> cliRows, ops |-> cliOps,
                               versions |-> cliVersions]]
    /\ UNCHANGED <<cliRows, cliOps, cliVersions, cliPkSeq, cliOpSeq, srvVars, procVars>>

\* the statements that follow read the object of each operation, as it is
\* committed by then
HandlePullObjects ==
    /\ pull.pc = "filling"
    /\ dialect = "sqlite" => lock = "free"
    /\ \E m \in {FillFor(GetLatestVersionId(pull.pre.versions),
                          Unversioned(pull.pre.ops), pull.msg.versions,
                          SeqToSet(pull.msg.operations), srvRows)} :
          pull' = [pull EXCEPT !.pc = "received",
                               !.msg.payload = m.payload]
    /\ UNCHANGED <<cliRows, cliOps, cliVersions, cliPkSeq, cliOpSeq, srvVars, procVars>>

\* two pushes and one pull, overlapping
NextConcPull ==
    \/ NextConc
    \/ HandlePullVersions
    \/ HandlePullObjects

SpecConcPull == Init /\ [][NextConcPull]_vars

\* a server and a node that hold the same rows, the node having pulled the
\* server's only version; then both are written to, and the node pulls
Bases ==
    {{[ct |-> CtB, id |-> 1, name |-> "n1", a_id |-> NULL]},
     {[ct |-> CtA, id |-> 1, name |-> "n1", a_id |-> NULL],
      [ct |-> CtB, id |-> 1, name |-> "n1", a_id |-> 1]}}

InitSynced ==
    /\ dialect = "sqlite"
    /\ srvRows \in Bases
    /\ cliRows = srvRows
    /\ srvVersions = {[version_id |-> 1, node_id |-> NULL]}
    /\ srvOps = {[order |-> 1, row_id |-> 1, content_type_id |-> CtB,
                  command |-> "i", version_id |-> 1]}
    /\ verSeq = 1
    /\ opSeq = 1
    /\ srvNodes = RegisteredNodes
    /\ lock = "free"
    /\ hs = [h \in Handlers |-> IdleCall]
    /\ srvPkSeq = PkSeqOf(srvRows)
    /\ cliOps = {}
    /\ cliVersions = srvVersions
    /\ cliPkSeq = PkSeqOf(cliRows)
    /\ cliOpSeq = 0
    /\ pull = IdlePull
    /\ InitProcess

NextMerge ==
    \/ \E c \in Commands, o \in Obj : ClientWrite(c, o)
    \/ \E c \in Commands, o \in Obj : ServerWrite(c, o)
    \/ PullRequest
    \/ MergeBegin
    \/ MergeOp
    \/ MergeEnd

SpecMerge == InitSynced /\ [][NextMerge]_vars

\* the same, the server also inserting objects of a third unique value, so
\* that it can hold more rows of a type than the node does
NextMergeWide ==
    \/ NextMerge
    \/ \E o \in ObjSrv : ServerWrite("i", o)

\* starting from the base that holds no row of A yet
InitWide == InitSynced /\ \A r \in srvRows : r.ct # CtA

SpecMergeWide == InitWide /\ [][NextMergeWide]_vars

\* ------------------------------------------- compression on its own
\* the objects that the operations of a drawn log are about
LogKeys == {<<CtA, 1>>, <<CtB, 1>>}

LogRows ==
    {[ct |-> CtA, id |-> 1, name |-> "n1", a_id |-> NULL],
     [ct |-> CtB, id |-> 1, name |-> "n1", a_id |-> NULL]}

\* the unversioned logs of n operations: any command on any of the objects
\* at each place, the order field being the primary key of the table
LogsOfLen(n) ==
    {{[order |-> i, row_id |-> f[i][1][2], content_type_id |-> f[i][1][1],
       command |-> f[i][2], version_id |-> NULL] : i \in 1..n} :
        f \in [1..n -> LogKeys \X Commands]}

Logs == UNION {LogsOfLen(n) : n \in 0..MaxLogLen}

\* a node with any unversioned log over any rows
InitCompress ==
    /\ dialect = "sqlite"
    /\ srvRows = {}
    /\ srvVersions = {}
    /\ srvOps = {}
    /\ verSeq = 0
    /\ opSeq = 0
    /\ srvNodes = RegisteredNodes
    /\ lock = "free"
    /\ hs = [h \in Handlers |-> IdleCall]
    /\ srvPkSeq = PkSeqOf({})
    /\ cliRows \in SUBSET LogRows
    /\ cliOps \in Logs
    /\ cliVersions = {}
    /\ cliPkSeq = PkSeqOf(LogRows)
    /\ cliOpSeq = Cardinality(cliOps)
    /\ pull = IdlePull
    /\ InitProcess

\* compressed_operations called on the operations of the table
CompressedOperationsCall ==
    /\ pull.pc = "idle"
    /\ pull' = [pull EXCEPT
                   !.pc = "listed",
                   !.msg.operations = SortByOrder(cliOps),
                   !.pullOps = CompressedOperations(cliOps)]
    /\ UNCHANGED <<cliRows, cliOps, cliVersions, cliPkSeq, cliOpSeq, srvVars, procVars>>

\* compressed_operations called on its own result
CompressedOperationsAgain ==
    /\ pull.pc = "listed"
    /\ pull' = [pull EXCEPT
                   !.pc = "relisted",
                   !.msg.operations = pull.pullOps,
                   !.pullOps = CompressedOperations(SeqToSet(pull.pullOps))]
    /\ UNCHANGED <<cliRows, cliOps, cliVersions, cliPkSeq, cliOpSeq, srvVars, procVars>>

\* compress() called with no session: it commits what it leaves
CompressCall ==
    /\ pull.pc = "idle"
    /\ cliOps' = Compress(cliOps, cliRows)
    /\ pull' = [pull EXCEPT
                   !.pc = "compressed",
                   !.pre = [rows |-> cliRows, ops |-> cliOps,
                            versions |-> cliVersions]]
    /\ UNCHANGED <<cliRows, cliVersions, cliPkSeq, cliOpSeq, srvVars, procVars>>

NextCompress ==
    \/ CompressedOperationsCall
    \/ CompressedOperationsAgain
    \/ CompressCall

SpecCompress == InitCompress /\ [][NextCompress]_vars

\* ------------------------------------------------ handle_pull on its own
\* the operations of a server log of m operations in the versions 1..n, on
\* objects of the models tracked for pull and of the one tracked for push
\* only
FillLogs(n, m) ==
    {{[order |-> i, row_id |-> f[i][2][2], content_type_id |-> f[i][2][1],
       command |-> f[i][3], version_id |-> f[i][1]] : i \in 1..m} :
        f \in [1..m -> (1..n) \X (LogKeys \cup {<<CtP, 1>>}) \X Commands]}

\* a server with any versions, any operations in them and the rows that
\* these operations leave (a row is there exactly when the newest operation
\* on it is not a delete), and a node that holds the first versions
InitFill ==
    /\ dialect = "sqlite"
    /\ \E n \in 0..MaxVersions :
          /\ srvVersions = DirectVersions(n)
          /\ srvOps \in UNION {FillLogs(n, m) : m \in 0..MaxFillOps}
          /\ verSeq = n
          /\ cliVersions \in {DirectVersions(l) : l \in 0..n}
    /\ opSeq = Cardinality(srvOps)
    /\ srvRows \in SUBSET LogRows
    /\ \A o \in srvOps :
          o.content_type_id \in PulledCts =>
              (Newest({x \in srvOps : OpKey(x) = OpKey(o)}).command # "d"
                  <=> RowsAt(srvRows, o.content_type_id, o.row_id) # {})
    /\ srvNodes = RegisteredNodes
    /\ lock = "free"
    /\ hs = [h \in Handlers |-> IdleCall]
    /\ srvPkSeq = PkSeqOf(LogRows)
    /\ cliRows = {}
    /\ cliOps = {}
    /\ cliPkSeq = PkSeqOf({})
    /\ cliOpSeq = 0
    /\ pull = IdlePull
    /\ InitProcess

SpecFill == InitFill /\ [][PullRequest]_vars

\* ------------------------------------------------------- client/push.py
\* the rows of a query without ORDER BY, in any sequence
Orderings(S) ==
    {s \in [1..Cardinality(S) -> S] :
        \A i \in 1..Len(s), j \in 1..Len(s) : i # j => s[i] # s[j]}

\* add_unversioned_operations: the object of every operation that is not a
\* delete, when there is one
ObjectsFor(ops, rows) ==
    {r \in rows : \E o \in ops : o.command # "d" /\ OpKey(o) = KeyOf(r)}

\* the node of this database, as get_node() gives it
ThisNode == [node_id |-> 1, secret |-> "s1"]

\* push(), up to the request: the latest version id, compress() on its own
\* transaction, the unversioned operations and their objects, the signature
PushBuild ==
    /\ push.pc = "idle"
    /\ pull.pc \in {"idle", "done"}
    /\ repair.pc \in {"idle", "done"}
    /\ \E ops1 \in {Compress(cliOps, cliRows)} :
       \E list \in Orderings(Unversioned(ops1)) :
          /\ cliOps' = ops1
          /\ push' = [IdlePush EXCEPT
                 !.pc = "built",
                 !.msg = [node_id |-> ThisNode.node_id,
                          key |-> Sign(ThisNode.secret, list),
                          latest_version_id |->
                              GetLatestVersionId(cliVersions),
                          operations |-> list,
                          payload |-> ObjectsFor(SeqToSet(list), cliRows)],
                 !.pre = [ops |-> cliOps, versions |-> cliVersions]]
    /\ UNCHANGED <<listening, queue, us, stored, frames, repair, cliRows,
                   cliVersions, cliPkSeq, cliOpSeq, pull, srvVars>>

\* request_push, post_request: the message reaches handle_push
PushSend ==
    /\ push.pc = "built"
    /\ Receive("h1", push.msg)

\* (an accepted push that links every unversioned operation to the version)
PushedAllUnversioned(ops, versions, sent, new_version_id) ==
    [ops |-> {IF o.version_id = NULL
              THEN [o EXCEPT !.version_id = new_version_id] ELSE o :
                 o \in ops \cup sent},
     versions |-> versions \cup
         {[version_id |-> new_version_id, node_id |-> NULL]}]

\* request_push, after the response: the new version, and session.merge of
\* every operation of the message (by its primary key, order) with the new
\* version id
Pushed(ops, versions, sent, new_version_id) ==
    [ops |-> {o \in ops : \A x \in sent : o.order # x.order}
                \cup {[x EXCEPT !.version_id = new_version_id] :
                         x \in sent},
     versions |-> versions \cup
         {[version_id |-> new_version_id, node_id |-> NULL]}]

\* request_push, from the response on: PushRejected or PullSuggested when
\* the server did not accept (with_transaction rolls back), else the commit
\* of what Pushed leaves
PushResponse ==
    /\ push.pc = "built"
    /\ hs["h1"].pc = "done"
    /\ hs["h1"].msg = push.msg
    /\ IF hs["h1"].res.kind # "ok"
       THEN /\ push' = [push EXCEPT
                   !.pc = "done",
                   !.res = Result(IF hs["h1"].res.kind = "PullSuggested"
                                  THEN "PullSuggested" ELSE "PushRejected",
                                  hs["h1"].res.reason, NULL)]
            /\ UNCHANGED <<cliOps, cliVersions>>
       ELSE \E new \in {hs["h1"].res.new_version_id} :
            \E r \in {Pushed(cliOps, cliVersions,
                             SeqToSet(push.msg.operations), new)} :
               IF \E v \in cliVersions : v.version_id = new
               THEN /\ push' = [push EXCEPT
                           !.pc = "done",
                           !.res = Result("IntegrityError", "flush", NULL)]
                    /\ UNCHANGED <<cliOps, cliVersions>>
               ELSE /\ push' = [push EXCEPT !.pc = "done",
                                            !.res = hs["h1"].res]
                    /\ cliOps' = r.ops
                    /\ cliVersions' = r.versions
    /\ UNCHANGED <<listening, queue, us, stored, frames, repair, cliRows,
                   cliPkSeq, cliOpSeq, pull, srvVars>>

\* ------------------------------------------ client/compression.py: trim
\* (a trim that deletes the versions and leaves the operations)
ClientTrimmedVersionsOnly(ops, versions) ==
    [ops |-> ops,
     versions |-> {v \in versions :
                      v.version_id = GetLatestVersionId(versions)}]

\* what trim leaves: the unversioned operations and the latest version
ClientTrimmed(ops, versions) ==
    [ops |-> {o \in ops : ~(o.version_id # NULL)},
     versions |-> {v \in versions :
                      ~(v.version_id # GetLatestVersionId(versions))}]

\* trim(), in its transaction
ClientTrim ==
    /\ pull.pc \in {"idle", "done"}
    /\ \E t \in {ClientTrimmed(cliOps, cliVersions)} :
          /\ t.ops # cliOps \/ t.versions # cliVersions
          /\ cliOps' = t.ops
          /\ cliVersions' = t.versions
    /\ UNCHANGED <<cliRows, cliPkSeq, cliOpSeq, pull, srvVars, procVars>>

\* -------------------------------- server/handlers.py, client/repair.py
\* handle_repair, first statement: the latest version id
HandleRepairVersion ==
    /\ repair.pc = "idle"
    /\ pull.pc \in {"idle", "done"}
    /\ dialect = "sqlite" => lock = "free"
    /\ repair' = [IdleRepair EXCEPT
                     !.pc = "asked",
                     !.latest_version_id = GetLatestVersionId(srvVersions)]
    /\ UNCHANGED <<listening, queue, us, stored, frames, push, cliVars,
                   srvVars>>

\* handle_repair, the statements that follow: every row of every synched
\* model, as committed by then
HandleRepairObjects ==
    /\ repair.pc = "asked"
    /\ dialect = "sqlite" => lock = "free"
    /\ repair' = [repair EXCEPT !.pc = "received", !.payload = srvRows]
    /\ UNCHANGED <<listening, queue, us, stored, frames, push, cliVars,
                   srvVars>>

\* (a repair that leaves the versions of the node in place)
RepairedKeepsVersions(payload, latest_version_id) ==
    [rows |-> payload, ops |-> {},
     versions |-> cliVersions \cup
         IF latest_version_id = NULL THEN {}
         ELSE {[version_id |-> latest_version_id, node_id |-> NULL]}]

\* what repair_database leaves in its session: the objects of the message,
\* no operation, and the version of the message
Repaired(payload, latest_version_id) ==
    [rows |-> payload, ops |-> {},
     versions |-> IF latest_version_id = NULL THEN {}
                  ELSE {[version_id |-> latest_version_id,
                         node_id |-> NULL]}]

\* repair_database: with_transaction commits what it leaves, or rolls back
\* when the flush fails
RepairDatabase ==
    /\ repair.pc = "received"
    /\ pull.pc \in {"idle", "done"}
    /\ \E r \in {Repaired(repair.payload, repair.latest_version_id)} :
          IF IntegrityViolated(r.rows)
          THEN /\ repair' = [repair EXCEPT !.pc = "done",
                                           !.res = "IntegrityError"]
               /\ UNCHANGED <<cliRows, cliOps, cliVersions, cliPkSeq>>
          ELSE /\ cliRows' = r.rows
               /\ cliOps' = r.ops
               /\ cliVersions' = r.versions
               /\ cliPkSeq' = PkSeqOf(r.rows \cup
                                  {[ct |-> ct, id |-> cliPkSeq[ct]] :
                                      ct \in TrackedCts})
               /\ repair' = [repair EXCEPT
                                !.pc = "done", !.res = "ok",
                                !.pre = [rows |-> cliRows, ops |-> cliOps,
                                         versions |-> cliVersions]]
    /\ UNCHANGED <<listening, queue, us, stored, frames, push, cliOpSeq,
                   pull, srvVars>>

\* ------------------------------------------------------- server/trim.py
\* the greatest version_id among the versions of the node, or None
LatestOf(node, versions) ==
    GetLatestVersionId({v \in versions : v.node_id = node.node_id})

\* (a trim that also deletes the version of the minimum)
TrimThrough(versions, ops, nodes) ==
    LET latest == {LatestOf(n, versions) : n \in nodes}
        last_id == GetLatestVersionId(versions)
        minversion == Min(latest)
    IN  IF nodes = {}
        THEN [ops |-> {},
              versions |-> {v \in versions : v.version_id = last_id}]
        ELSE IF NULL \in latest
        THEN [ops |-> ops, versions |-> versions]
        ELSE [ops |-> {o \in ops : ~(o.version_id # NULL
                                     /\ o.version_id <= minversion)},
              versions |-> {v \in versions : ~(v.version_id <= minversion)}]

\* trim: what it leaves of the versions and of the operations.  Without
\* any node, all the operations and all the versions but the latest go;
\* a node without a version blocks the trim.
Trim(versions, ops, nodes) ==
    LET latest == {LatestOf(n, versions) : n \in nodes}
        last_id == GetLatestVersionId(versions)
        minversion == Min(latest)
    IN  IF nodes = {}
        THEN [ops |-> {},
              versions |-> {v \in versions : v.version_id = last_id}]
        ELSE IF NULL \in latest
        THEN [ops |-> ops, versions |-> versions]
        ELSE [ops |-> {o \in ops : ~(o.version_id # NULL
                                     /\ o.version_id <= minversion)},
              versions |-> {v \in versions : ~(v.version_id < minversion)}]

\* a call of trim by thread h, which commits when it returns (on SQLite it
\* waits while a push holds the exclusive transaction); the call remembers
\* what the tables held before
TrimCall(h) ==
    /\ hs[h].pc = "idle"
    /\ dialect = "sqlite" => lock = "free"
    /\ \E t \in {Trim(srvVersions, srvOps, srvNodes)} :
          /\ srvOps' = t.ops
          /\ srvVersions' = t.versions
    /\ hs' = [hs EXCEPT ![h] =
           [IdleCall EXCEPT !.pc = "trimmed",
                            !.pre = [rows |-> srvRows,
                                     versions |-> srvVersions,
                                     ops |-> srvOps]]]
    /\ UNCHANGED <<dialect, srvRows, srvNodes, verSeq, opSeq, lock,
                   srvPkSeq, cliVars, procVars>>

\* --------------------------------------------- core.py: with_listening
\* a procedure wrapped by with_listening(enabled) is entered: the wrapper
\* keeps the value of the flag in prev and sets the flag.  A frame also
\* remembers, for the properties, the value that the flag had at the entry.
WithListeningEnter(enabled) ==
    /\ Len(frames.stack) < MaxDepth
    /\ frames' = [frames EXCEPT !.stack =
                     <<[prev |-> listening, enabled |-> enabled,
                        entered |-> listening, outcome |-> "none"]>> \o @]
    /\ listening' = Toggled(enabled)
    /\ UNCHANGED <<queue, us, stored, push, repair, cliVars, srvVars>>

\* (a wrapper that toggles the flag back when it is left)
WithListeningExitToggles(outcome) ==
    /\ frames.stack # <<>>
    /\ listening' = ~listening
    /\ frames' = [stack |-> Tail(frames.stack),
                  last |-> [Head(frames.stack) EXCEPT !.outcome = outcome]]
    /\ UNCHANGED <<queue, us, stored, push, repair, cliVars, srvVars>>

\* the innermost procedure returns or raises: the finally clause of the
\* wrapper sets the flag to prev
WithListeningExit(outcome) ==
    /\ frames.stack # <<>>
    /\ listening' = Head(frames.stack).prev
    /\ frames' = [stack |-> Tail(frames.stack),
                  last |-> [Head(frames.stack) EXCEPT !.outcome = outcome]]
    /\ UNCHANGED <<queue, us, stored, push, repair, cliVars, srvVars>>

\* one thread that calls procedures wrapped by with_listening, nested up to
\* MaxDepth, and toggles the flag in and between them
NextListening ==
    \/ \E e \in {"None", "True", "False"} : WithListeningEnter(e)
    \/ \E outcome \in {"return", "raise"} : WithListeningExit(outcome)
    \/ \E e \in {"None", "True", "False"} : ToggleListening(e)

\* ----------------------------------------------- tracking on its own
\* the objects that the user sessions write: rows of B, which has no
\* unique column
ObjUser == [ct : {CtB}, id : {1, 2}, name : Names, a_id : {NULL}]

\* a node that has not synchronized, with or without a row
InitTrack ==
    /\ dialect = "sqlite"
    /\ srvRows = {}
    /\ srvVersions = {}
    /\ srvOps = {}
    /\ verSeq = 0
    /\ opSeq = 0
    /\ srvNodes = RegisteredNodes
    /\ lock = "free"
    /\ hs = [h \in Handlers |-> IdleCall]
    /\ srvPkSeq = PkSeqOf({})
    /\ cliRows \in {{}, {[ct |-> CtB, id |-> 1, name |-> "n1",
                          a_id |-> NULL]}}
    /\ cliOps = {}
    /\ cliVersions = {}
    /\ cliPkSeq = PkSeqOf(cliRows)
    /\ cliOpSeq = 0
    /\ pull = IdlePull
    /\ InitProcess

\* two user sessions at work, and the listening flag being toggled
NextTrack ==
    \/ \E s \in UserSessions, c \in Commands, o \in ObjUser :
          UserWrite(s, c, o)
    \/ \E s \in UserSessions : UserCommit(s)
    \/ \E s \in UserSessions : UserRollback(s)
    \/ \E e \in {"None", "True", "False"} : ToggleListening(e)

SpecTrack == InitTrack /\ [][NextTrack]_vars

SpecListening == InitTrack /\ [][NextListening]_vars

\* ------------------------------------------------------ trim on its own
\* the versions 1..k of a server, each one made by a push of a node or by a
\* write on the server
VersionsBy(k) ==
    {{[version_id |-> i, node_id |-> f[i]] : i \in 1..k} :
        f \in [1..k -> {NULL, 1, 2}]}

\* a server with nodes, versions and the operations of these versions (one
\* for a write on the server, one or two for a push)
InitTrim ==
    /\ dialect \in Dialects
    /\ srvRows = {[ct |-> CtA, id |-> 1, name |-> "n1", a_id |-> NULL]}
    /\ srvNodes \in SUBSET RegisteredNodes
    /\ \E k \in 0..(MaxVersions + 1) :
          /\ srvVersions \in VersionsBy(k)
          /\ verSeq = k
          /\ \E two \in SUBSET {v \in srvVersions : v.node_id # NULL} :
                srvOps = DirectOps(k) \cup
                    {[order |-> k + v.version_id, row_id |-> 1,
                      content_type_id |-> CtA, command |-> "u",
                      version_id |-> v.version_id] : v \in two}
    /\ \A v \in srvVersions :
          v.node_id # NULL => \E n \in srvNodes : n.node_id = v.node_id
    /\ opSeq = Max({0} \cup {o.order : o \in srvOps})
    /\ lock = "free"
    /\ hs = [h \in Handlers |-> IdleCall]
    /\ srvPkSeq = PkSeqOf(srvRows)
    /\ InitNode

NextTrim == \E h \in Handlers : TrimCall(h)

SpecTrim == InitTrim /\ [][NextTrim]_vars

\* ---------------------------------------------------- repair on its own
\* a synchronized or a new pair of server and node; the server is written
\* to until it has answered a repair request, the node until it is repaired
InitRepair == InitSynced \/ InitTrack

NextRepair ==
    \/ \E c \in Commands, o \in Obj : repair.pc # "done" /\ ClientWrite(c, o)
    \/ \E c \in Commands, o \in Obj :
          /\ repair.pc \in {"idle", "asked"}
          /\ Cardinality(srvVersions) < MaxVersions
          /\ ServerWrite(c, o)
    \/ HandleRepairVersion
    \/ HandleRepairObjects
    \/ RepairDatabase

SpecRepair == InitRepair /\ [][NextRepair]_vars

\* ------------------------------------------- a node and its server
\* a synchronized pair of a server and its one registered node; the node
\* runs one synchronization procedure at a time
InitSync ==
    /\ dialect = "sqlite"
    /\ srvRows \in Bases
    /\ cliRows = srvRows
    /\ srvVersions = {[version_id |-> 1, node_id |-> NULL]}
    /\ srvOps = {[order |-> 1, row_id |-> 1, content_type_id |-> CtB,
                  command |-> "i", version_id |-> 1]}
    /\ verSeq = 1
    /\ opSeq = 1
    /\ srvNodes = {ThisNode}
    /\ lock = "free"
    /\ hs = [h \in Handlers |-> IdleCall]
    /\ srvPkSeq = PkSeqOf(srvRows)
    /\ cliOps = {}
    /\ cliVersions = srvVersions
    /\ cliPkSeq = PkSeqOf(cliRows)
    /\ cliOpSeq = 0
    /\ pull = IdlePull
    /\ InitProcess

Syncing ==
    \/ push.pc = "built"
    \/ pull.pc \in {"received", "merging"}
    \/ repair.pc \in {"asked", "received"}

\* the objects written while synchronizing: the rows of B without a parent
ObjSync == {o \in ObjB : o.a_id = NULL}

NextSync ==
    \/ \E c \in Commands, o \in ObjSync :
          cliOpSeq < MaxLocalOps /\ ClientWrite(c, o)
    \/ \E c \in Commands, o \in ObjSync :
          Cardinality(srvVersions) < MaxVersions /\ ServerWrite(c, o)
    \/ ~Syncing /\ PushBuild
    \/ PushSend
    \/ Apply("h1")
    \/ Commit("h1")
    \/ PushResponse
    \/ ~Syncing /\ PullRequest
    \/ MergeBegin
    \/ MergeOp
    \/ MergeEnd
    \/ ~Syncing /\ HandleRepairVersion
    \/ HandleRepairObjects
    \/ RepairDatabase
    \/ ~Syncing /\ ClientTrim
    \/ TrimCall("h2")

SpecSync == InitSync /\ [][NextSync]_vars

\* ------------------------------------- the threads of the node's process
\* register(): the wrapper of with_listening(False) keeps the flag and
\* clears it, before with_transaction begins
RegisterEnter ==
    /\ frames.stack = <<>>
    /\ frames.last.outcome = "none"
    /\ WithListeningEnter("False")

\* register(), its body: once no user transaction holds the database, the
\* request is posted; handle_register adds the node on the server and the
\* response is stored, or the request fails and RegisterRejected is raised
RegisterBody(outcome) ==
    /\ frames.stack # <<>>
    /\ Head(frames.stack).outcome = "none"
    /\ pull.pc # "merging"
    /\ \A s \in UserSessions : us[s].writes = <<>>
    /\ frames' = [frames EXCEPT !.stack[1].outcome = outcome]
    /\ srvNodes' = IF outcome = "return" THEN srvNodes \cup {ThisNode}
                   ELSE srvNodes
    /\ UNCHANGED <<dialect, srvRows, srvVersions, srvOps, verSeq, opSeq,
                   lock, hs, srvPkSeq, cliVars, listening, queue, us,
                   stored, push, repair>>

\* register(), the finally clause of its wrapper
RegisterExit ==
    /\ frames.stack # <<>>
    /\ Head(frames.stack).outcome # "none"
    /\ WithListeningExit(Head(frames.stack).outcome)

\* a node that has not synchronized and is not registered
InitThreads ==
    /\ dialect = "sqlite"
    /\ srvRows = {}
    /\ srvVersions = {}
    /\ srvOps = {}
    /\ verSeq = 0
    /\ opSeq = 0
    /\ srvNodes = RegisteredNodes \ {ThisNode}
    /\ lock = "free"
    /\ hs = [h \in Handlers |-> IdleCall]
    /\ srvPkSeq = PkSeqOf({})
    /\ cliRows \in {{}, {[ct |-> CtB, id |-> 1, name |-> "n1",
                          a_id |-> NULL]}}
    /\ cliOps = {}
    /\ cliVersions = {}
    /\ cliPkSeq = PkSeqOf(cliRows)
    /\ cliOpSeq = 0
    /\ pull = IdlePull
    /\ InitProcess

\* one user session in its thread, a pull in another and register in a
\* third; the exclusive transaction of merge and of register keeps the
\* user session from writing, and an open user transaction keeps them from
\* beginning
NextThreads ==
    \/ \E c \in Commands, o \in ObjUser :
          pull.pc # "merging" /\ UserWrite("u1", c, o)
    \/ pull.pc # "merging" /\ UserCommit("u1")
    \/ \E c \in Commands, o \in ObjSync :
          Cardinality(srvVersions) < MaxVersions /\ ServerWrite(c, o)
    \/ PullRequest
    \/ us["u1"].writes = <<>> /\ MergeBegin
    \/ MergeOp
    \/ MergeEnd
    \/ RegisterEnter
    \/ \E outcome \in {"return", "raise"} : RegisterBody(outcome)
    \/ RegisterExit

SpecThreads == InitThreads /\ [][NextThreads]_vars

\* ------------------------------------------------ a push delivered again
\* up-to-date messages of a node
ReplayMessages(latest, n) == SignedMessages({latest}, {n}, ConcLists)

\* the objects the server's own sessions write
ObjReplay == {o \in ObjA : o.name = "n1"}

\* the request thread h2 has answered and takes its next request
ReturnCall(h) ==
    /\ hs[h].pc \in {"done", "trimmed"}
    /\ hs' = [hs EXCEPT ![h] = IdleCall]
    /\ UNCHANGED <<dialect, srvRows, srvVersions, srvOps, srvNodes, verSeq,
                   opSeq, lock, srvPkSeq, cliVars, procVars>>

\* the message of the push that h1 accepted reaches the server once more
Redeliver(h) ==
    /\ hs["h1"].res.kind = "ok"
    /\ Receive(h, hs["h1"].msg)

\* h1 handles one push of node 1; h2 handles pushes of node 2 and the one
\* of h1 again, and trims; the server's own sessions write
NextReplay ==
    \/ /\ hs["h1"].pc = "idle"
       /\ \E m \in ReplayMessages(GetLatestVersionId(srvVersions), 1) :
             Receive("h1", m)
    \/ /\ NextVersionId <= MaxRemoteOps
       /\ \E m \in ReplayMessages(GetLatestVersionId(srvVersions), 2) :
             Receive("h2", m)
    \/ \E h \in Handlers : Apply(h)
    \/ \E h \in Handlers : Commit(h)
    \/ Redeliver("h2")
    \/ ReturnCall("h2")
    \/ \E c \in Commands, o \in ObjReplay :
          NextVersionId <= MaxRemoteOps /\ ServerWrite(c, o)
    \/ TrimCall("h2")

\* a server without rows that has versioned at most one write
InitReplay == Init /\ srvRows = {} /\ Cardinality(srvVersions) <= 1

SpecReplay == InitReplay /\ [][NextReplay]_vars

\* ------------------------------------------------------------ properties
Rejections == {"PushRejected", "PullSuggested"}

Accepting(c) == c.pc \in {"admitted", "flushed"} \/ c.res.kind = "ok"

\* C1: whenever handle_push rejects a push, at admission or part-way
\* through the apply, the tracked tables, the operations table and the
\* versions table are exactly as they were before the call.
C1_RejectedPushLeavesServerUnchanged ==
    \A h \in Handlers :
        (hs[h].pc = "done" /\ hs[h].res.kind \in Rejections)
            => /\ srvRows = hs[h].pre.rows
               /\ srvVersions = hs[h].pre.versions
               /\ srvOps = hs[h].pre.ops

\* a push rejected after some of its operations had been performed
C1_Witness ==
    \E h \in Handlers :
        LET m == hs[h].msg
            rows1 == ResolveUnique(SrvFindUniqueConflicts(m, srvRows),
                                   srvRows)
        IN  /\ hs[h].pc = "done"
            /\ hs[h].res.kind = "PushRejected"
            /\ hs[h].res.reason = "operation not performed"
            /\ PerformOps(m.operations, 1, m.payload, rows1, FALSE).rows
                  # srvRows

\* C2: a message is accepted only if its latest_version_id equals the
\* server's latest (both may be null); otherwise it is rejected, with
\* PullSuggested when the message's id is null or strictly less than the
\* server's latest, with plain PushRejected when the server has no version
\* or the message's id is greater.
C2_VersionAdmission ==
    \A h \in Handlers :
        LET c == hs[h]
            lv == c.msg.latest_version_id
            ids == {v.version_id : v \in c.pre.versions}
            noVersion == ids = {}
            behind == /\ ~noVersion
                      /\ \/ lv = NULL
                         \/ \E i \in ids : lv < i
            ahead == \/ noVersion /\ lv # NULL
                     \/ ~noVersion /\ lv # NULL /\ \A i \in ids : lv > i
        IN  c.pc # "idle" =>
              /\ Accepting(c) => ~behind /\ ~ahead
              /\ behind => c.pc = "done" /\ c.res.kind = "PullSuggested"
              /\ ahead => c.pc = "done" /\ c.res.kind = "PushRejected"

\* a message with a non-null id strictly less than the server's latest
C2_Witness ==
    \E h \in Handlers :
        /\ hs[h].pc = "done"
        /\ hs[h].res.kind = "PullSuggested"
        /\ hs[h].msg.latest_version_id # NULL
        /\ hs[h].msg.latest_version_id
              < GetLatestVersionId(hs[h].pre.versions)

\* the key a message of this node with these operations must carry
ProperKey(m) == Sha512(SecretOf(m.node_id), Portion(m.operations))

IllSigned(m) == m.node_id # NULL /\ m.key # ProperKey(m)

\* C3 (as stated): a message is accepted only if its key is the SHA-512 of
\* the node's secret and the operation tuples in list order; a message
\* whose key was altered, or whose tuples were changed or reordered after
\* signing, is rejected with "message isn't properly signed" and no
\* Version is appended.
C3_IllSignedRejectedAsNotSigned ==
    \A h \in Handlers :
        LET c == hs[h] IN
        c.pc # "idle" =>
          /\ Accepting(c) => c.msg.node_id # NULL /\ c.msg.key = ProperKey(c.msg)
          /\ IllSigned(c.msg) =>
                /\ c.pc = "done"
                /\ c.res.kind = "PushRejected"
                /\ c.res.reason = "not signed"
                /\ srvVersions = c.pre.versions

\* C3 (amended): such a message is always rejected and no Version is
\* appended; the rejection is "message isn't properly signed" when the
\* message passes the two earlier checks (its latest_version_id is the
\* server's latest and it has operations).
C3_IllSignedRejected ==
    \A h \in Handlers :
        LET c == hs[h]
            latest == IF c.pre.versions = {} THEN NULL
                      ELSE Max({v.version_id : v \in c.pre.versions})
        IN
        c.pc # "idle" =>
          /\ Accepting(c) => c.msg.node_id # NULL /\ c.msg.key = ProperKey(c.msg)
          /\ IllSigned(c.msg) =>
                /\ c.pc = "done"
                /\ c.res.kind \in Rejections
                /\ srvVersions = c.pre.versions
                /\ (c.msg.latest_version_id = latest
                      /\ c.msg.operations # <<>>)
                    => /\ c.res.kind = "PushRejected"
                       /\ c.res.reason = "not signed"

\* a message whose operations were reordered after signing, refused at the
\* signature check
C3_Witness ==
    \E h \in Handlers :
        LET c == hs[h] IN
        /\ c.pc = "done"
        /\ c.msg.node_id # NULL
        /\ Len(c.msg.operations) = 2
        /\ c.msg.key = Sha512(SecretOf(c.msg.node_id),
                              Portion(Reverse(c.msg.operations)))
        /\ c.res.reason = "not signed"

\* C4: every successful handle_push appends exactly one Version, with a
\* version_id greater than every version the server had, and the node_id of
\* the message; the returned new_version_id is the server's latest
\* version id right after the commit.
C4_OneNewLatestVersion ==
    [][\A h \in Handlers :
          (hs[h].pc = "flushed" /\ hs'[h].pc = "done") =>
             LET new == srvVersions' \ srvVersions IN
             /\ srvVersions \subseteq srvVersions'
             /\ Cardinality(new) = 1
             /\ \A v \in new :
                   /\ \A w \in srvVersions : v.version_id > w.version_id
                   /\ v.node_id = hs[h].msg.node_id
                   /\ hs'[h].res.new_version_id = v.version_id
             /\ hs'[h].res.new_version_id
                   = GetLatestVersionId(srvVersions')]_vars

\* C5: pushes are serialized, so two messages that carry the same
\* latest_version_id are never both accepted.
C5_SameBaseNotBothAccepted ==
    \A h1 \in Handlers, h2 \in Handlers :
        (h1 # h2 /\ hs[h1].res.kind = "ok" /\ hs[h2].res.kind = "ok")
            => hs[h1].msg.latest_version_id # hs[h2].msg.latest_version_id

\* ------------------------------------------------- properties of the merge
PullDone == pull.pc = "done"

MergeDone == pull.pc = "done" /\ pull.res = "ok"

\* the pulled operations as merge sees them (after compressed_operations),
\* and the unversioned operations it starts from (after compress())
PulledOn(k, command) ==
    \E i \in 1..Len(pull.pullOps) :
        OpKey(pull.pullOps[i]) = k /\ pull.pullOps[i].command = command

LocalOn(k, command) ==
    \E o \in Unversioned(pull.mid.ops) : OpKey(o) = k /\ o.command = command

ConflictKeys(remote, local) ==
    {k \in {OpKey(o) : o \in Unversioned(pull.mid.ops)} :
        PulledOn(k, remote) /\ LocalOn(k, local)}

PerformedOn(k) == \E x \in pull.performed : x.key = k

LogOn(k) == {o \in Unversioned(cliOps) : OpKey(o) = k}

\* a unique-constraint conflict that is a human error: a pulled object
\* takes the unique value of a local row that is the same object inserted
\* on both sides, or another object that the message does not carry or
\* that has an unversioned insert or update
HumanError ==
    \E i \in 1..Len(pull.pullOps) :
        LET op == pull.pullOps[i] IN
        \E o \in pull.msg.payload, r \in pull.mid.rows :
            /\ op.content_type_id \in UniqueCts
            /\ KeyOf(o) = OpKey(op)
            /\ r.ct = o.ct
            /\ r.name = o.name
            /\ IF r.id = o.id THEN op.command = "i"
               ELSE \/ ContainerQuery(pull.msg.payload, r.ct, r.id) = {}
                    \/ LocalOn(KeyOf(r), "i")
                    \/ LocalOn(KeyOf(r), "u")

C7_UpdateUpdateKeepsLocal ==
    MergeDone =>
        \A k \in ConflictKeys("u", "u") :
            /\ ~PerformedOn(k)
            /\ RowsAt(cliRows, k[1], k[2]) = RowsAt(pull.pre.rows, k[1], k[2])
            /\ \E o \in LogOn(k) : o.command = "u"

\* the local row that an insert conflict moved from key old to key new
Rekeyed(ct, old, new) ==
    /\ PulledOn(<<ct, old>>, "i")
    /\ LocalOn(<<ct, old>>, "i")
    /\ \E o \in LogOn(<<ct, new>>) : o.command = "i"
    /\ \E r \in RowsAt(pull.pre.rows, ct, old) :
          [r EXCEPT !.id = new] \in cliRows

\* the row of k holds its local values, a foreign key to a local row that
\* the merge moved to a new primary key holding the new key
HoldsLocalValues(k) ==
    /\ RowsAt(cliRows, k[1], k[2]) # {}
    /\ \A q \in RowsAt(cliRows, k[1], k[2]) :
          \E r \in RowsAt(pull.pre.rows, k[1], k[2]) :
              \/ q = r
              \/ /\ q = [r EXCEPT !.a_id = q.a_id]
                 /\ Rekeyed(CtA, r.a_id, q.a_id)

\* C7 (amended): on a direct conflict of a pulled update with a local update
\* of the same object, the pulled update is not performed: after the merge
\* the row holds the local values, except that a foreign key to a local row
\* that the merge moved to a new primary key (insert conflict) holds the new
\* key, and the local update is still in the unversioned log.
C7_UpdateUpdateKeepsLocalUpToRekey ==
    MergeDone =>
        \A k \in ConflictKeys("u", "u") :
            /\ ~PerformedOn(k)
            /\ HoldsLocalValues(k)
            /\ \E o \in LogOn(k) : o.command = "u"

C7_Witness ==
    /\ MergeDone
    /\ \E k \in ConflictKeys("u", "u") :
          /\ RowsAt(cliRows, k[1], k[2])
                # ContainerQuery(pull.msg.payload, k[1], k[2])
          /\ RowsAt(cliRows, k[1], k[2]) = RowsAt(pull.pre.rows, k[1], k[2])

\* C8: on a direct conflict of a pulled update with a local delete of the
\* same object, the pulled operation is performed and the local delete is
\* removed: after the merge the row, which the node had deleted, exists
\* with the values of the pull payload, and the unversioned log holds no
\* operation for it.
C8_UpdateDeleteInsertsRemote ==
    MergeDone =>
        \A k \in ConflictKeys("u", "d") :
            /\ PerformedOn(k)
            /\ RowsAt(pull.pre.rows, k[1], k[2]) = {}
            /\ RowsAt(cliRows, k[1], k[2]) # {}
            /\ RowsAt(cliRows, k[1], k[2])
                  = ContainerQuery(pull.msg.payload, k[1], k[2])
            /\ LogOn(k) = {}

\* C9 (as stated): on a direct conflict of a pulled delete with a local
\* update of the same object, the pulled delete is not performed and the
\* local operation becomes an insert: after the merge the row exists with
\* its local values and the unversioned log holds exactly one operation for
\* it, an insert.
C9_DeleteUpdateReinserts ==
    MergeDone =>
        \A k \in ConflictKeys("d", "u") :
            /\ ~PerformedOn(k)
            /\ RowsAt(cliRows, k[1], k[2]) # {}
            /\ RowsAt(cliRows, k[1], k[2]) = RowsAt(pull.pre.rows, k[1], k[2])
            /\ Cardinality(LogOn(k)) = 1
            /\ \A o \in LogOn(k) : o.command = "i"

\* C9 (amended): on a direct conflict of a pulled delete with a local update
\* of the same object, the pulled delete is not performed and the local
\* operation becomes an insert: after the merge the row exists with its
\* local values, except that a foreign key to a local row that the merge
\* moved to a new primary key (insert conflict) holds the new key, and the
\* unversioned log holds exactly one operation for it, an insert.
C9_DeleteUpdateReinsertsUpToRekey ==
    MergeDone =>
        \A k \in ConflictKeys("d", "u") :
            /\ ~PerformedOn(k)
            /\ HoldsLocalValues(k)
            /\ Cardinality(LogOn(k)) = 1
            /\ \A o \in LogOn(k) : o.command = "i"

C9_Witness ==
    /\ MergeDone
    /\ \E k \in ConflictKeys("d", "u") :
          /\ RowsAt(cliRows, k[1], k[2]) # {}
          /\ \E o \in LogOn(k) : o.command = "i"

\* C10: on a direct conflict of a pulled delete with a local delete of the
\* same object, the pulled delete is not performed and the local delete is
\* removed from the unversioned log, so that a later push does not send it.
C10_DeleteDeleteDropsLocal ==
    MergeDone =>
        \A k \in ConflictKeys("d", "d") :
            /\ ~PerformedOn(k)
            /\ \A o \in LogOn(k) : o.command # "d"

C10_Witness ==
    /\ MergeDone
    /\ \E k \in ConflictKeys("d", "d") :
          /\ RowsAt(cliRows, k[1], k[2]) = {}
          /\ LogOn(k) = {}

\* the parents whose pulled delete meets a local insert or update of a row
\* that refers to them (dependency conflict)
DependencyKeys ==
    {k \in {OpKey(pull.pullOps[i]) : i \in 1..Len(pull.pullOps)} :
        /\ PulledOn(k, "d")
        /\ k[1] = CtA
        /\ \E b \in pull.mid.rows :
              /\ b.ct = CtB
              /\ b.a_id = k[2]
              /\ LocalOn(KeyOf(b), "i") \/ LocalOn(KeyOf(b), "u")}

OrdersDistinct ==
    \A o1 \in cliOps, o2 \in cliOps : o1.order = o2.order => o1 = o2

ReversedPairs ==
    {c \in ({CtB} \X Pks) \X ({CtA} \X Pks) :
        /\ PulledOn(c[1], "i") \/ PulledOn(c[1], "u")
        /\ LocalOn(c[2], "d")
        /\ \E b \in pull.msg.payload : KeyOf(b) = c[1] /\ b.a_id = c[2][2]}

\* C12 (as stated): when a local unversioned delete removed a row that a
\* pulled insert or update refers to, the merge re-creates the deleted row
\* from the message, removes the local delete from the log and performs the
\* pulled operation: afterwards both the parent and the referring row exist.
C12_ReversedDependencyReinserts ==
    MergeDone =>
        \A c \in ReversedPairs :
            /\ RowsAt(cliRows, c[2][1], c[2][2]) # {}
            /\ RowsAt(cliRows, c[2][1], c[2][2]) \subseteq pull.msg.payload
            /\ LogOn(c[2]) = {}
            /\ PerformedOn(c[1])
            /\ RowsAt(cliRows, c[1][1], c[1][2]) # {}

\* C12 (amended): the same, except that a pulled update of a row that has a
\* local unversioned update of its own is not performed (the local values
\* are kept); the parent is re-created and the local delete removed all the
\* same.
C12_ReversedDependencyReinsertsUnlessLocalUpdate ==
    MergeDone =>
        \A c \in ReversedPairs :
            /\ RowsAt(cliRows, c[2][1], c[2][2]) # {}
            /\ RowsAt(cliRows, c[2][1], c[2][2]) \subseteq pull.msg.payload
            /\ LogOn(c[2]) = {}
            /\ PerformedOn(c[1]) <=> ~(PulledOn(c[1], "u") /\ LocalOn(c[1], "u"))
            /\ RowsAt(cliRows, c[1][1], c[1][2]) # {}

C12_Witness ==
    /\ MergeDone
    /\ \E c \in ReversedPairs :
          /\ RowsAt(pull.mid.rows, c[2][1], c[2][2]) = {}
          /\ RowsAt(cliRows, c[2][1], c[2][2]) # {}
          /\ PerformedOn(c[1])

\* the primary keys of a content type among a set of objects
IdsOf(objs, ct) == {r.id : r \in {x \in objs : x.ct = ct}}

\* an iteration of the merge loop that resolves an insert conflict on the
\* pulled operation and raises nothing
InsertConflictStep ==
    /\ pull.pc = "merging"
    /\ pull'.pc = "merging"
    /\ pull'.p = pull.p + 1
    /\ Extract(pull.p, pull.s.insert) # {}
    /\ pull'.s.error = ""

\* the keys that have both a pulled insert and a local unversioned insert
InsertKeys ==
    {k \in {OpKey(pull.pullOps[i]) : i \in 1..Len(pull.pullOps)} :
        PulledOn(k, "i") /\ LocalOn(k, "i")}

\* C13: on an insert conflict at primary key p the local record moves to
\* next_id = max(largest key of the type in the message, largest local key
\* of the type) + 1, the rows whose foreign key was p take next_id, the
\* local operation's row_id becomes next_id and the pulled record is
\* inserted at p; after the merge both records exist.
C13_InsertConflictMovesLocal ==
    /\ [][InsertConflictStep =>
            LET op == pull.pullOps[pull.p]
                ct == op.content_type_id
                old == op.row_id
                next_id == Max({Max(IdsOf(pull.msg.payload, ct)),
                                Max(IdsOf(pull.s.rows, ct))}) + 1
                after == pull'.s
            IN  /\ \A r \in RowsAt(pull.s.rows, ct, old) :
                      [r EXCEPT !.id = next_id] \in after.rows
                /\ \A b \in pull.s.rows :
                      (ct = CtA /\ b.ct = CtB /\ b.a_id = old)
                          => [b EXCEPT !.a_id = next_id] \in after.rows
                /\ \A l \in Extract(pull.p, pull.s.insert) :
                      /\ l \in after.live
                      /\ after.lops[l].row_id = next_id
                      /\ after.lops[l].command = "i"
                /\ RowsAt(after.rows, ct, old)
                      = ContainerQuery(pull.msg.payload, ct, old)
                /\ RowsAt(after.rows, ct, old) # {}
                /\ [key |-> OpKey(op), command |-> "i"] \in after.performed
         ]_vars
    /\ [](MergeDone =>
            \A k \in InsertKeys :
                /\ RowsAt(cliRows, k[1], k[2]) # {}
                /\ \E n \in IdsOf(cliRows, k[1]) \ IdsOf(pull.mid.rows, k[1]) :
                      /\ n > k[2]
                      /\ \E o \in LogOn(<<k[1], n>>) : o.command = "i"
                /\ LogOn(k) = {})

C13_Witness ==
    /\ MergeDone
    /\ \E k \in InsertKeys :
          /\ k[1] = CtA
          /\ \E b \in pull.mid.rows : b.ct = CtB /\ b.a_id = k[2]
          /\ \E b \in cliRows : b.ct = CtB /\ b.a_id > k[2]
          /\ Max(IdsOf(pull.msg.payload, CtA)) > Max(IdsOf(pull.mid.rows, CtA))

\* what the reduction table gives for the group of one object: G is the
\* set of its operations
TableFor(G) ==
    LET first == Oldest(G)
        last == Newest(G)
    IN  IF Cardinality(G) = 1 THEN G
        ELSE IF first.command = "i"
        THEN IF last.command = "d" THEN {} ELSE {first}
        ELSE IF first.command = "u"
        THEN IF last.command = "d" THEN {last} ELSE {first}
        ELSE IF last.command = "d" THEN {first}
        ELSE IF last.command = "u" THEN {last}
        ELSE {[order |-> last.order, row_id |-> last.row_id,
               content_type_id |-> last.content_type_id,
               command |-> "u", version_id |-> last.version_id]}

Ascending(seq) ==
    \A i \in 1..Len(seq), j \in 1..Len(seq) :
        i < j => seq[i].order < seq[j].order

\* C14: compressed_operations gives, for every group of operations on one
\* object read from oldest to newest, what the reduction table says (a
\* single operation stays; i...d nothing, i... the i; u...d the final d,
\* u... the first u; d...d the first d, d...u the last u, d...i a new u with
\* the last operation's order), and returns the survivors by ascending
\* order.
C14_ReductionTable ==
    pull.pc = "listed" =>
        LET input == SeqToSet(pull.msg.operations)
            group(k) == {o \in input : OpKey(o) = k}
        IN  /\ SeqToSet(pull.pullOps)
                  = UNION {TableFor(group(k)) : k \in {OpKey(o) : o \in input}}
            /\ Ascending(pull.pullOps)

C14_Witness ==
    /\ pull.pc = "listed"
    /\ Len(pull.pullOps) = 2
    /\ \E i \in 1..2 :
          /\ pull.pullOps[i].command = "u"
          /\ pull.pullOps[i] \notin SeqToSet(pull.msg.operations)
          /\ pull.pullOps[i].order = MaxLogLen

ConsistentLog(ops) ==
    \A o \in Unversioned(ops) :
        AssertOperationSequence({x \in Unversioned(ops) : OpKey(x) = OpKey(o)})

Fields(seq) ==
    [i \in 1..Len(seq) |->
        <<seq[i].order, seq[i].row_id, seq[i].content_type_id,
          seq[i].command>>]

\* C16: compressed_operations applied to its own result returns the same
\* operations (same order, row_id, content_type_id and command) in the same
\* sequence.
C16_CompressedOperationsIdempotent ==
    pull.pc = "relisted" => Fields(pull.pullOps) = Fields(pull.msg.operations)

C16_Witness ==
    /\ pull.pc = "relisted"
    /\ Len(pull.pullOps) = 2
    /\ pull.pullOps[1].command = "u"
    /\ pull.pullOps[1] \notin cliOps
    /\ Cardinality(cliOps) = MaxLogLen

\* the rows are those that the log tells of: an object has a row exactly
\* when its newest operation is not a delete
BackedLog(ops, rows) ==
    \A o \in Unversioned(ops) :
        Newest({x \in Unversioned(ops) : OpKey(x) = OpKey(o)}).command # "d"
            <=> RowsAt(rows, o.content_type_id, o.row_id) # {}

\* C17: the operations that compress() leaves in the table, read by
\* ascending order, are the list that compressed_operations returns for the
\* log as it was before.  The claim speaks of every unversioned log; it is
\* stated here for the consistent logs that the rows back, which are the
\* logs that tracking alone produces.
C17_CompressAgreesWithCompressedOperations ==
    (/\ pull.pc = "compressed"
     /\ ConsistentLog(pull.pre.ops)
     /\ BackedLog(pull.pre.ops, pull.pre.rows)) =>
        Fields(SortByOrder(Unversioned(cliOps)))
            = Fields(CompressedOperations(Unversioned(pull.pre.ops)))

\* the versions that a request with latest_version_id L asks for
VersionsAfter(L) == {v \in srvVersions : L = NULL \/ v.version_id > L}

OperationsOf(vs) ==
    {o \in srvOps : \E v \in vs : o.version_id = v.version_id}

\* C18 (as stated): the response to a pull request with latest_version_id L
\* holds exactly the versions with version_id > L (all of them when L is
\* null), all the operations of these versions and, for each of them that
\* is not a delete and whose model is tracked for pull, the backing object.
C18_ResponseHoldsVersionsOperationsObjects ==
    pull.pc = "received" =>
        LET L == GetLatestVersionId(pull.pre.versions)
        IN  /\ pull.msg.versions = VersionsAfter(L)
            /\ SeqToSet(pull.msg.operations) = OperationsOf(VersionsAfter(L))
            /\ \A o \in OperationsOf(VersionsAfter(L)) :
                  (o.command # "d" /\ o.content_type_id \in PulledCts)
                      => \E r \in pull.msg.payload : KeyOf(r) = OpKey(o)

\* C18 (amended): the response holds exactly the versions with version_id
\* > L (all of them when L is null), the operations of these versions whose
\* model is tracked for pull and, for each of them that is not a delete and
\* whose row still exists on the server, that row.
C18_ResponseHoldsPulledOperationsAndLiveObjects ==
    pull.pc = "received" =>
        LET L == GetLatestVersionId(pull.pre.versions)
            pulled == {o \in OperationsOf(VersionsAfter(L)) :
                          o.content_type_id \in PulledCts}
        IN  /\ pull.msg.versions = VersionsAfter(L)
            /\ SeqToSet(pull.msg.operations) = pulled
            /\ Len(pull.msg.operations) = Cardinality(pulled)
            /\ \A o \in pulled :
                  o.command # "d" =>
                      RowsAt(srvRows, o.content_type_id, o.row_id)
                          \subseteq pull.msg.payload

C18_Witness ==
    /\ pull.pc = "received"
    /\ pull.pre.versions # {}
    /\ pull.msg.versions # {}
    /\ Len(pull.msg.operations) = 1
    /\ Cardinality(srvOps) = 2
    /\ pull.msg.payload # {}

\* C19: a pull response is a consistent snapshot of the server's versions
\* even when a push commits while it is built: it holds all the operations
\* of every version it holds, and it never holds a version v while a server
\* version between the request's latest_version_id and v is missing from
\* it.
C19_ResponseIsSnapshot ==
    pull.pc \in {"filling", "received"} =>
        LET L == GetLatestVersionId(pull.pre.versions)
        IN  /\ \A v \in pull.msg.versions :
                  OperationsOf({v}) \subseteq SeqToSet(pull.msg.operations)
            /\ \A v \in pull.msg.versions, w \in srvVersions :
                  ((L = NULL \/ w.version_id > L)
                      /\ w.version_id < v.version_id)
                      => w \in pull.msg.versions

\* the latest_version_id that push() puts in its message
PushLatestVersionId == GetLatestVersionId(cliVersions)

\* C20: after a successful merge of a pull message that holds at least one
\* version, the node's latest version id is the greatest version_id of the
\* message, so that a push issued next carries the server's latest version
\* id as of that response.
C20_LatestVersionAfterMerge ==
    (MergeDone /\ pull.msg.versions # {}) =>
        /\ GetLatestVersionId(cliVersions)
              = Max({v.version_id : v \in pull.msg.versions})
        /\ PushLatestVersionId = GetLatestVersionId(srvVersions)
        /\ pull.msg.versions \subseteq cliVersions

C20_Witness ==
    /\ MergeDone
    /\ Cardinality(pull.msg.versions) >= 2
    /\ PushLatestVersionId > GetLatestVersionId(pull.pre.versions)
    /\ PushLatestVersionId = GetLatestVersionId(srvVersions)

\* ------------------------------------------------ properties of tracking
\* the step is the commit, or the rollback, of the transaction of s
CommitStep(s) ==
    us'[s].n = us[s].n + 1 /\ us'[s].rollbacks = us[s].rollbacks

RollbackStep(s) ==
    us'[s].n = us[s].n + 1 /\ us'[s].rollbacks # us[s].rollbacks

\* C21: every insert, update that really modifies the object, or delete of
\* a row of a push-tracked model that a user session commits while
\* listening is enabled (at the write and at the commit) adds exactly one
\* operation to the operation log, with that command, the row's primary
\* key, the model's content_type_id and a null version_id.
C21_CommittedWriteLogsOneOperation ==
    [][\A s \in UserSessions :
          (CommitStep(s) /\ listening) =>
             \A i \in 1..Len(us[s].writes) :
                (us[s].writes[i].listening /\ us[s].writes[i].modified) =>
                   \E x \in stored' :
                      /\ x.tag = <<s, us[s].n, i>>
                      /\ \A y \in stored' : y.tag = x.tag => y = x
                      /\ [order |-> x.order,
                          row_id |-> us[s].writes[i].o.id,
                          content_type_id |-> us[s].writes[i].o.ct,
                          command |-> us[s].writes[i].command,
                          version_id |-> NULL] \in cliOps']_vars

\* C22: operations queued by the tracker for a user transaction that is
\* rolled back never appear in the operation log, neither at the rollback
\* nor at any later commit of the same or of another session.
C22_RolledBackNeverLogged ==
    \A x \in stored : x.tag[2] \notin us[x.tag[1]].rollbacks

\* C23: with several user sessions at work, the commit of one session does
\* not persist operations queued by a session that has not committed, and
\* the rollback of one session does not discard operations queued by
\* another session.
C23_SessionsDoNotInterfere ==
    [][\A s \in UserSessions :
          /\ CommitStep(s) =>
                \A x \in stored' \ stored : x.tag[1] = s
          /\ RollbackStep(s) =>
                \A i \in 1..Len(queue) :
                    queue[i].tag[1] # s =>
                        \E j \in 1..Len(queue') : queue'[j] = queue[i]]_vars

\* C24: within one thread, every procedure wrapped by with_listening leaves
\* the process-wide listening flag equal to the value it had when the
\* procedure was entered, whether the procedure returns or raises, also
\* when such procedures are nested.
C24_WithListeningRestores ==
    [][Len(frames'.stack) < Len(frames.stack) =>
          listening' = Head(frames.stack).entered]_vars

\* a procedure that disables listening, called with the flag enabled from
\* within other such procedures, has raised, and the flag is enabled
C24_Witness ==
    /\ Len(frames.stack) = MaxDepth - 1
    /\ frames.last.outcome = "raise"
    /\ frames.last.enabled = "False"
    /\ frames.last.entered
    /\ listening

\* the greatest version_id of each of the nodes, taken from the versions
AcknowledgedBy(nodes, versions) ==
    {LatestOf(n, versions) : n \in nodes}

\* C25: when every registered node has at least one Version attributed to
\* it, trim deletes exactly the operations with version_id <= m and the
\* versions with version_id < m, where m is the smallest, over all nodes,
\* of the node's greatest version_id; when some registered node has no
\* Version attributed to it, trim changes nothing.  (m exists when there is
\* a registered node.)
C25_TrimDeletesBelowMinimum ==
    \A h \in Handlers :
        (hs[h].pc = "trimmed" /\ srvNodes # {}) =>
            LET pre == hs[h].pre
                acked == AcknowledgedBy(srvNodes, pre.versions)
            IN  IF \A n \in srvNodes :
                      \E v \in pre.versions : v.node_id = n.node_id
                THEN \E m \in acked :
                        /\ \A x \in acked : m <= x
                        /\ srvOps = {o \in pre.ops : o.version_id > m}
                        /\ srvVersions
                              = {v \in pre.versions : v.version_id >= m}
                ELSE srvOps = pre.ops /\ srvVersions = pre.versions

\* two nodes with different greatest versions, and a trim that deleted
\* operations and versions and kept others
C25_Witness ==
    \E h \in Handlers :
        /\ hs[h].pc = "trimmed"
        /\ Cardinality(srvNodes) = 2
        /\ Cardinality(AcknowledgedBy(srvNodes, hs[h].pre.versions)) = 2
        /\ NULL \notin AcknowledgedBy(srvNodes, hs[h].pre.versions)
        /\ srvVersions # hs[h].pre.versions
        /\ srvOps # {}
        /\ srvOps # hs[h].pre.ops

\* C26: after a client repair with a server snapshot, the client's tracked
\* tables contain exactly the snapshot's objects, the operation log is
\* empty, and the versions table holds only the snapshot's
\* latest_version_id (nothing when it is null), whatever the client's state
\* was before.
C26_RepairReplacesNodeState ==
    [][(repair.pc = "received" /\ repair'.pc = "done") =>
          /\ repair'.res = "ok"
          /\ cliRows' = repair.payload
          /\ cliOps' = {}
          /\ {v.version_id : v \in cliVersions'}
                = {repair.latest_version_id} \ {NULL}]_vars

\* a node with unversioned operations and rows of its own was repaired
C26_Witness ==
    /\ repair.pc = "done"
    /\ repair.latest_version_id # NULL
    /\ repair.res = "ok"
    /\ Unversioned(repair.pre.ops) # {}
    /\ repair.pre.rows # repair.payload
    /\ repair.pre.versions # cliVersions
    /\ cliRows = repair.payload
    /\ cliOps = {}

\* a node was repaired with the snapshot of a server without versions
C26_WitnessNull ==
    /\ repair.pc = "done"
    /\ repair.res = "ok"
    /\ repair.latest_version_id = NULL
    /\ repair.pre.ops # {}
    /\ cliVersions = {}
    /\ cliOps = {}

\* ------------------------------------------- properties of handle_push
\* C29: handle_push performs the operations of a message in ascending order
\* of their order field, whatever position they have in the message's
\* operations list.
C29_PerformedInAscendingOrder ==
    \A h \in Handlers : Ascending(hs[h].performed)

\* the operation rows a step adds to the server's table
StoredBy == srvOps' \ srvOps

\* C30: on a successful push the server stores exactly one operation row
\* per operation of the message, all linked to the new Version, with order
\* values the server assigns itself: each is greater than every order
\* already in the server's table, and they follow the same relative
\* sequence as the client's order values, which are not stored.
C30_StoredOperationsOfPush ==
    [][\A h \in Handlers :
          (hs[h].pc = "flushed" /\ hs'[h].pc = "done") =>
             LET ops == hs[h].msg.operations
                 vid == hs'[h].res.new_version_id
             IN  /\ srvOps \subseteq srvOps'
                 /\ Cardinality(StoredBy) = Len(ops)
                 /\ \E v \in srvVersions' \ srvVersions : v.version_id = vid
                 /\ \A o \in StoredBy :
                       /\ o.version_id = vid
                       /\ \A p \in srvOps : o.order > p.order
                 /\ \E f \in [1..Len(ops) -> StoredBy] :
                       /\ \A i \in 1..Len(ops) :
                             /\ OpKey(f[i]) = OpKey(ops[i])
                             /\ f[i].command = ops[i].command
                       /\ \A i \in 1..Len(ops), j \in 1..Len(ops) :
                             ops[i].order < ops[j].order
                                <=> f[i].order < f[j].order]_vars

\* ------------------------------------ properties of the synchronization
\* C27: in every state reachable on the server or on a client through
\* tracking, push, pull/merge, trim and repair, every operation with a
\* non-null version_id refers to a Version row that exists.
C27_VersionedOperationsHaveVersion ==
    /\ \A o \in srvOps :
          o.version_id # NULL =>
             \E v \in srvVersions : v.version_id = o.version_id
    /\ \A o \in cliOps :
          o.version_id # NULL =>
             \E v \in cliVersions : v.version_id = o.version_id

\* the node holds a versioned operation after a push, a pull and a trim of
\* its own, and the server holds operations after its trim deleted some
C27_Witness ==
    /\ push.pc = "done"
    /\ push.res.kind = "ok"
    /\ pull.pc = "done"
    /\ hs["h2"].pc = "trimmed"
    /\ hs["h2"].pre.ops # srvOps
    /\ srvOps # {}
    /\ \E o \in cliOps : o.version_id # NULL

FatalOp(op, payload) ==
    \/ op.content_type_id \notin TrackedCts
    \/ /\ op.command \in {"i", "u"}
       /\ ContainerQuery(payload, op.content_type_id, op.row_id) = {}

HasFatalOp(m) ==
    \E i \in 1..Len(m.operations) : FatalOp(m.operations[i], m.payload)

\* C31: a push that contains an operation whose content type the server
\* does not track, or an insert or update whose object is missing from the
\* payload, is rejected as a whole with PushRejected and appends no
\* Version.
C31_FatalOperationRejectsPush ==
    \A h \in Handlers :
        (hs[h].pc = "done" /\ HasFatalOp(hs[h].msg)) =>
            /\ hs[h].res.kind \in Rejections
            /\ srvVersions = hs[h].pre.versions
            /\ srvRows = hs[h].pre.rows

\* ------------------------------------ properties of merge and tracking
\* C32: rows written by merge are not recorded by the change tracker: after
\* merging any pull message into a client whose unversioned log is empty,
\* the unversioned log is still empty, so pulled changes are never pushed
\* back to the server.
C32_MergeIsNotTracked ==
    (MergeDone /\ Unversioned(pull.pre.ops) = {}) =>
        /\ Unversioned(cliOps) = {}
        /\ queue = <<>>

\* a merge into a node without unversioned operations changed its rows
C32_Witness ==
    /\ MergeDone
    /\ Unversioned(pull.pre.ops) = {}
    /\ cliRows # pull.pre.rows
    /\ pull.performed # {}
    /\ listening
    /\ queue = <<>>
    /\ Unversioned(cliOps) = {}

\* ------------------------------------------ properties of the server log
NoUnversionedOnServer == \A o \in srvOps : o.version_id # NULL

\* a step of the server's own tracking: versions are added and no handler
\* moves
DirectWriteStep == srvVersions' # srvVersions /\ hs' = hs

\* C33: on the server no operation is ever stored without a version: each
\* direct write to a tracked table creates one Version and one Operation
\* linked to it, and each accepted push links all of its operations to its
\* own Version, so in every committed server state the operations table has
\* no row with a null version_id.
C33_ServerOperationsAreVersioned ==
    [][/\ NoUnversionedOnServer
       /\ NoUnversionedOnServer'
       /\ DirectWriteStep =>
             /\ Cardinality(srvVersions' \ srvVersions) = 1
             /\ Cardinality(srvOps' \ srvOps) = 1
             /\ \A v \in srvVersions' \ srvVersions :
                   \A o \in srvOps' \ srvOps : o.version_id = v.version_id
       /\ (hs["h1"].pc = "flushed" /\ hs'["h1"].pc = "done") =>
             /\ Cardinality(srvOps' \ srvOps)
                   = Len(hs["h1"].msg.operations)
             /\ \A o \in srvOps' \ srvOps :
                   /\ o.version_id = hs'["h1"].res.new_version_id
                   /\ \E v \in srvVersions' \ srvVersions :
                         v.version_id = o.version_id]_vars

\* the server holds the operation of a direct write and the operations of
\* an accepted push, and has trimmed
C33_Witness ==
    /\ hs["h1"].res.kind = "ok"
    /\ hs["h1"].newops # {}
    /\ hs["h1"].newops \subseteq srvOps
    /\ \E v \in srvVersions :
          /\ v.node_id = NULL
          /\ v.version_id # hs["h1"].res.new_version_id
          /\ \E o \in srvOps : o.version_id = v.version_id
    /\ hs["h2"].pc = "trimmed"

\* C34: a push message that the server accepted is rejected when the
\* identical message is delivered again, at any later time and after any
\* sequence of other pushes, direct writes and trims: its
\* latest_version_id no longer equals the server's latest version id.
C34_ReplayedPushIsRejected ==
    [][(/\ hs["h1"].res.kind = "ok"
        /\ hs["h2"].pc = "idle"
        /\ hs'["h2"].msg = hs["h1"].msg)
          => /\ hs["h1"].msg.latest_version_id
                   # GetLatestVersionId(srvVersions)
             /\ hs'["h2"].pc = "done"
             /\ hs'["h2"].res.kind \in Rejections
             /\ hs'["h2"].res.reason = "version"]_vars

\* the accepted message came again after a push of the other node and a
\* trim that deleted versions, and was rejected
C34_Witness ==
    /\ hs["h1"].res.kind = "ok"
    /\ hs["h2"].pc = "done"
    /\ hs["h2"].msg = hs["h1"].msg
    /\ hs["h2"].res.kind \in Rejections
    /\ hs["h2"].base > hs["h1"].res.new_version_id
    /\ \E v \in srvVersions : v.node_id = 2
    /\ \A v \in srvVersions : v.version_id >= hs["h1"].res.new_version_id
    /\ hs["h1"].res.new_version_id > 1

\* ------------------------------------------------------- fast-forward pulls
\* the node had nothing to push at the pull: it never wrote since the base
\* it shares with the server
FastForward == Unversioned(pull.pre.ops) = {} /\ cliOpSeq = 0

C36_CommittedChangeIsLogged ==
    [][CommitStep("u1") =>
          \A i \in 1..Len(us["u1"].writes) :
             us["u1"].writes[i].modified =>
                \E x \in stored' :
                   /\ x.tag = <<"u1", us["u1"].n, i>>
                   /\ [order |-> x.order,
                       row_id |-> us["u1"].writes[i].o.id,
                       content_type_id |-> us["u1"].writes[i].o.ct,
                       command |-> us["u1"].writes[i].command,
                       version_id |-> NULL] \in cliOps']_vars

\* C37: when two procedures wrapped by with_listening(False) (for example
\* merge and register) run in overlapping threads, once both have finished
\* the listening flag is back to the value it had before the first of them
\* started (the flag is set when the threads start).
C37_FlagRestoredAfterOverlap ==
    (/\ pull.pc = "done"
     /\ frames.stack = <<>>
     /\ frames.last.outcome # "none")
        => listening

\* ------------------------------------------------ trim and what nodes hold
\* C38: server trim never deletes an operation that a registered node has
\* not yet received: for every registered node, each operation that trim
\* deletes has a version_id no greater than the latest version id stored on
\* that node's client, also when the response to one of the node's accepted
\* pushes was lost.
C38_TrimDeletesOnlyReceived ==
    [][(hs["h2"].pc = "idle" /\ hs'["h2"].pc = "trimmed") =>
          \A o \in srvOps \ srvOps' :
             o.version_id <= GetLatestVersionId(cliVersions)]_vars

\* ------------------------------------------- renumbering and foreign keys
\* the pulled operation at position i changes a row of B that, in the
\* message, refers to the record p of A, and merge performed it
ReceivedReferring(i, p) ==
    /\ pull.pullOps[i].content_type_id = CtB
    /\ pull.pullOps[i].command # "d"
    /\ \E b \in pull.msg.payload :
          KeyOf(b) = OpKey(pull.pullOps[i]) /\ b.a_id = p
    /\ [key |-> OpKey(pull.pullOps[i]),
        command |-> pull.pullOps[i].command] \in pull.performed

\* the pulled operation at position j is an insert of the record p of A
\* that met an insert of the node at the same key
InsertConflictAt(j, p) ==
    /\ OpKey(pull.pullOps[j]) = <<CtA, p>>
    /\ pull.pullOps[j].command = "i"
    /\ LocalOn(<<CtA, p>>, "i")

\* C39: when merge renumbers a local record because of an insert conflict
\* at primary key p, only rows that referenced the local record are
\* re-pointed to the new key: a row received from the server earlier in the
\* same merge whose foreign key refers to the server's record p still
\* refers to p after the merge.
C39_RenumberingKeepsServerReferences ==
    MergeDone =>
        \A p \in Pks :
           \A j \in 1..Len(pull.pullOps) :
              InsertConflictAt(j, p) =>
                 \A i \in 1..(j - 1) :
                    ReceivedReferring(i, p) =>
                       \A r \in cliRows :
                          KeyOf(r) = OpKey(pull.pullOps[i]) => r.a_id = p

\* C40: merge preserves referential integrity although foreign-key
\* enforcement is switched off during it: if before the merge every foreign
\* key in the client's tracked tables and in the server's tracked tables
\* referred to an existing row, then after a successful merge every foreign
\* key in the client's tracked tables refers to an existing row.
C40_MergePreservesReferences ==
    (MergeDone /\ FkValid(pull.pre.rows) /\ FkValid(srvRows))
        => FkValid(cliRows)

\* merge met a pulled delete of a record that a row written on the node
\* refers to, kept the record, and the node's row still refers to it
C40_Witness ==
    /\ MergeDone
    /\ FkValid(pull.pre.rows)
    /\ FkValid(srvRows)
    /\ \E i \in 1..Len(pull.pullOps) :
          /\ pull.pullOps[i].command = "d"
          /\ pull.pullOps[i].content_type_id = CtA
          /\ \E b \in cliRows :
                b.ct = CtB /\ b.a_id = pull.pullOps[i].row_id
====
